---- MODULE Spec2Model ----
(***************************************************************************)
(* Race Prophet: the webhook event reconciliation engine.                  *)
(*                                                                         *)
(* The persistent store (database.py) is modelled as one set of rows per   *)
(* table; process_activity_event (webhook_handler.py) is modelled as a     *)
(* process that takes one atomic step per awaited store or network call,   *)
(* so that concurrent invocations interleave exactly at the awaits.        *)
(*                                                                         *)
(* Units: timestamps are seconds, dates are day numbers, distances are     *)
(* metres (the code's dist_km is distance / 1000, kept here in metres so   *)
(* that the arithmetic stays in the integers), the distance tolerance is   *)
(* in percent (0.15 = 15).                                                 *)
(***************************************************************************)
EXTENDS Integers, Sequences, FiniteSets, TLC

VARIABLES
    pool,                \* database.pool is set (DATABASE_URL configured)
    fernet,              \* get_fernet() is set (ENCRYPTION_KEY configured)
    now,                 \* wall clock: time.time() / NOW(), in seconds
    data_consent,        \* table data_consent
    athlete_tokens,      \* table athlete_tokens
    training_log,        \* table training_log
    pending_predictions, \* table pending_predictions
    race_results,        \* table race_results
    seqs,                \* the SERIAL sequences of the three id columns
    issued,              \* number of token pairs the upstream provider issued
    started,             \* number of process_activity_event invocations begun
    ticks,               \* number of clock advances
    ev,                  \* per invocation slot: position and local variables
    obs,                 \* per invocation slot: what the invocation has done
    ret                  \* the last direct call of a function, and its value

vars == <<pool, fernet, now, data_consent, athlete_tokens, training_log,
          pending_predictions, race_results, seqs, issued, started, ticks,
          ev, obs, ret>>

store == <<data_consent, athlete_tokens, training_log, pending_predictions,
           race_results, seqs>>

----------------------------------------------------------------------------
(* Bounds of the model *)

\* invocations of process_activity_event begun
MaxEvents == 2
\* predictions created
MaxPreds == 2
\* successful upstream refreshes, in Spec
MaxIssued == 1
\* clock advances
MaxTicks == 2

(* Program constants *)

GraceSeconds == 300
DefaultMatchWindowDays == 3
DefaultTolerancePct == 15
ExpiryDaysAfterRace == 7
ExpiryDaysNoRace == 365
RaceWorkoutType == 1
HttpOk == 200

SecondsPerDay == 24 * 60 * 60

(* None / NULL, and a start_date string that is not a date *)
Null == -1
Malformed == -2

Procs == {1, 2}
Athletes == {1}
ActivityIds == {1, 2}


----------------------------------------------------------------------------
(* Helpers *)

Abs(x) == IF x < 0 THEN -x ELSE x

\* hash_athlete_id: a salted one-way hash; athlete ids and hashes never mix.
hash_athlete_id(strava_athlete_id) == <<"sha256", strava_athlete_id>>

\* encrypt_token / decrypt_token (Fernet): decrypt inverts encrypt.
encrypt_token(token) == IF ~fernet THEN <<"enc", Null>> ELSE <<"enc", token>>
decrypt_token(encrypted) == IF ~fernet THEN Null ELSE encrypted[2]

\* datetime.strptime(s[:10], "%Y-%m-%d") inside try/except (ValueError,
\* TypeError): a day number parses, every other shape is rejected.
ParseDate(start_date) == [ok |-> start_date >= 0, date |-> start_date]

----------------------------------------------------------------------------
(* Consent *)

get_consent(strava_athlete_id) ==
    IF ~pool THEN FALSE
    ELSE LET rows == {r \in data_consent :
                        r.athlete_hash = hash_athlete_id(strava_athlete_id)}
         IN  IF rows = {} THEN FALSE ELSE (CHOOSE r \in rows : TRUE).opted_in

set_consent(table, strava_athlete_id, opted_in) ==
    IF ~pool THEN table
    ELSE LET h == hash_athlete_id(strava_athlete_id)
         IN  IF \E r \in table : r.athlete_hash = h
             THEN {IF r.athlete_hash = h THEN [r EXCEPT !.opted_in = opted_in]
                   ELSE r : r \in table}
             ELSE table \cup {[athlete_hash |-> h, opted_in |-> opted_in]}

\* DELETE FROM <table> WHERE athlete_hash = $1
DeleteRowsOf(table, athlete_hash) == {r \in table : r.athlete_hash # athlete_hash}

----------------------------------------------------------------------------
(* Token storage *)

\* Mutant: a plain INSERT, without the ON CONFLICT (athlete_id) clause and
\* without the primary key.
store_tokens_NoConflict(table, athlete_id, access_token, refresh_token, expires_at) ==
    IF ~pool \/ ~fernet THEN table
    ELSE table \cup {[athlete_id |-> athlete_id,
                      athlete_hash |-> hash_athlete_id(athlete_id),
                      encrypted_access_token |-> encrypt_token(access_token),
                      encrypted_refresh_token |-> encrypt_token(refresh_token),
                      expires_at |-> expires_at]}

\* INSERT INTO athlete_tokens ... ON CONFLICT (athlete_id) DO UPDATE SET ...
store_tokens(table, athlete_id, access_token, refresh_token, expires_at) ==
    IF ~pool \/ ~fernet THEN table
    ELSE IF \E r \in table : r.athlete_id = athlete_id
         THEN {IF r.athlete_id = athlete_id
               THEN [r EXCEPT !.encrypted_access_token = encrypt_token(access_token),
                              !.encrypted_refresh_token = encrypt_token(refresh_token),
                              !.expires_at = expires_at]
               ELSE r : r \in table}
         ELSE table \cup {[athlete_id |-> athlete_id,
                           athlete_hash |-> hash_athlete_id(athlete_id),
                           encrypted_access_token |-> encrypt_token(access_token),
                           encrypted_refresh_token |-> encrypt_token(refresh_token),
                           expires_at |-> expires_at]}

update_tokens(table, athlete_id, access_token, refresh_token, expires_at) ==
    store_tokens(table, athlete_id, access_token, refresh_token, expires_at)

NoTokens == [found |-> FALSE]

get_tokens(athlete_id) ==
    IF ~pool \/ ~fernet THEN NoTokens
    ELSE LET rows == {r \in athlete_tokens : r.athlete_id = athlete_id}
         IN  IF rows = {} THEN NoTokens
             ELSE LET row == CHOOSE r \in rows : TRUE
                  IN  [found |-> TRUE,
                       athlete_id |-> row.athlete_id,
                       access_token |-> decrypt_token(row.encrypted_access_token),
                       refresh_token |-> decrypt_token(row.encrypted_refresh_token),
                       expires_at |-> row.expires_at]

\* The token pair the upstream provider issues with its k-th grant.
AccessOf(k) == 2 * k + 2
RefreshOf(k) == 2 * k + 3


----------------------------------------------------------------------------
(* Upstream activity detail: the payloads the provider can return for an   *)
(* activity id.  A later fetch of the same id may return an edited record. *)

RunA(id) ==
    [id |-> id, type |-> "Run", distance |-> 10000, moving_time |-> 3000,
     elapsed_time |-> 3100, total_elevation_gain |-> 100,
     average_heartrate |-> 150, max_heartrate |-> 180,
     workout_type |-> 1, start_date |-> 10, suffer_score |-> 50]

\* the same activity after the athlete edited it: every field differs
RunB(id) ==
    [id |-> id, type |-> "Run", distance |-> 11000, moving_time |-> 3410,
     elapsed_time |-> 3500, total_elevation_gain |-> 200,
     average_heartrate |-> 155, max_heartrate |-> 185,
     workout_type |-> 0, start_date |-> 11, suffer_score |-> 60]

Ride(id) == [RunA(id) EXCEPT !.type = "Ride"]
ZeroDistance(id) == [RunA(id) EXCEPT !.distance = 0]
BadDate(id) == [RunA(id) EXCEPT !.start_date = Malformed]

Payloads(id) == {RunA(id), RunB(id), Ride(id), ZeroDistance(id), BadDate(id)}

\* a run whose detail carries no moving time: "moving_time": 0, or the key
\* absent and defaulted to 0 by activity.get("moving_time", 0)
ZeroTime(id) == [RunA(id) EXCEPT !.moving_time = 0]

\* a run of a given distance (metres) on a given day
Run(id, distance, start_date) ==
    [RunA(id) EXCEPT !.distance = distance, !.start_date = start_date]
\* "start_date": null in the provider's answer
NullDate(id) == [RunA(id) EXCEPT !.start_date = Null]

----------------------------------------------------------------------------
(* Training log *)

\* Mutant: the test `dist_km <= 0` is missing.
log_activity_values_NoDistanceCheck(athlete_id, activity) ==
    IF ~pool THEN [ok |-> FALSE]
    ELSE IF ~get_consent(athlete_id) THEN [ok |-> FALSE]
    ELSE IF ~ParseDate(activity.start_date).ok THEN [ok |-> FALSE]
    ELSE [ok |-> TRUE,
          athlete_hash |-> hash_athlete_id(athlete_id),
          activity_date |-> ParseDate(activity.start_date).date,
          distance_km |-> activity.distance,
          moving_time_seconds |-> activity.moving_time,
          elapsed_time_seconds |-> activity.elapsed_time,
          elevation_gain_m |-> activity.total_elevation_gain,
          average_heartrate |-> activity.average_heartrate,
          max_heartrate |-> activity.max_heartrate,
          workout_type |-> activity.workout_type,
          is_race |-> (activity.workout_type = RaceWorkoutType),
          pace_per_km_sec |-> IF activity.distance > 0
                              THEN (activity.moving_time * 1000) \div activity.distance
                              ELSE Null,
          suffer_score |-> activity.suffer_score,
          strava_activity_id |-> activity.id]

\* log_activity up to the INSERT: None (ok = FALSE) or the values to write.
\* pace is moving_time / dist_km, seconds per kilometre.
log_activity_values(athlete_id, activity) ==
    IF ~pool THEN [ok |-> FALSE]
    ELSE IF ~get_consent(athlete_id) THEN [ok |-> FALSE]
    ELSE IF activity.distance <= 0 THEN [ok |-> FALSE]
    ELSE IF ~ParseDate(activity.start_date).ok THEN [ok |-> FALSE]
    ELSE [ok |-> TRUE,
          athlete_hash |-> hash_athlete_id(athlete_id),
          activity_date |-> ParseDate(activity.start_date).date,
          distance_km |-> activity.distance,
          moving_time_seconds |-> activity.moving_time,
          elapsed_time_seconds |-> activity.elapsed_time,
          elevation_gain_m |-> activity.total_elevation_gain,
          average_heartrate |-> activity.average_heartrate,
          max_heartrate |-> activity.max_heartrate,
          workout_type |-> activity.workout_type,
          is_race |-> (activity.workout_type = RaceWorkoutType),
          pace_per_km_sec |-> IF activity.distance > 0
                              THEN (activity.moving_time * 1000) \div activity.distance
                              ELSE Null,
          suffer_score |-> activity.suffer_score,
          strava_activity_id |-> activity.id]

LogConflict(r, v) ==
    /\ r.athlete_hash = v.athlete_hash
    /\ r.strava_activity_id = v.strava_activity_id

LogRow(v, id) ==
    [id |-> id,
     athlete_hash |-> v.athlete_hash,
     activity_date |-> v.activity_date,
     distance_km |-> v.distance_km,
     moving_time_seconds |-> v.moving_time_seconds,
     elapsed_time_seconds |-> v.elapsed_time_seconds,
     elevation_gain_m |-> v.elevation_gain_m,
     average_heartrate |-> v.average_heartrate,
     max_heartrate |-> v.max_heartrate,
     workout_type |-> v.workout_type,
     is_race |-> v.is_race,
     pace_per_km_sec |-> v.pace_per_km_sec,
     suffer_score |-> v.suffer_score,
     strava_activity_id |-> v.strava_activity_id]

\* ON CONFLICT (athlete_hash, strava_activity_id) DO UPDATE SET ...: the
\* columns the statement lists, and no others.
LogUpdate(r, v) ==
    [r EXCEPT !.distance_km = v.distance_km,
              !.moving_time_seconds = v.moving_time_seconds,
              !.elapsed_time_seconds = v.elapsed_time_seconds,
              !.elevation_gain_m = v.elevation_gain_m,
              !.average_heartrate = v.average_heartrate,
              !.max_heartrate = v.max_heartrate,
              !.workout_type = v.workout_type,
              !.is_race = v.is_race,
              !.pace_per_km_sec = v.pace_per_km_sec]

\* Mutant: a plain INSERT, without the ON CONFLICT clause.
log_activity_upsert_NoConflict(table, v, id) ==
    [table |-> table \cup {LogRow(v, id)}, id |-> id]

\* INSERT ... ON CONFLICT ... DO UPDATE ... RETURNING id, with `id` the value
\* drawn from the SERIAL sequence for the proposed row.
log_activity_upsert(table, v, id) ==
    IF \E r \in table : LogConflict(r, v)
    THEN [table |-> {IF LogConflict(r, v) THEN LogUpdate(r, v) ELSE r : r \in table},
          id |-> (CHOOSE r \in table : LogConflict(r, v)).id]
    ELSE [table |-> table \cup {LogRow(v, id)}, id |-> id]


\* datetime.utcnow().date(), as a day number
Today == now \div SecondsPerDay

\* strftime("%Y-W%W"): the week of a day, weeks starting on Monday (day 0 is
\* a Monday, and the days of the model lie in one year)
WeekOf(date) == date \div 7

RECURSIVE SumDistance(_)
SumDistance(rows) ==
    IF rows = {} THEN 0
    ELSE LET r == CHOOSE x \in rows : TRUE
         IN  r.distance_km + SumDistance(rows \ {r})

Max(S) == CHOOSE x \in S : \A y \in S : y <= x

\* the dict get_training_log_stats returns when there is nothing to report
EmptyStats == [kind |-> "empty"]

\* the aggregates of a non-empty selection; distances stay in metres (the
\* code reports them in miles, rounded to one decimal)
StatsOf(rows, weeks) ==
    IF weeks = 0 THEN [kind |-> "raise"]
    ELSE [kind |-> "stats",
          total_runs |-> Cardinality(rows),
          total_miles |-> SumDistance(rows),
          avg_weekly_miles |-> SumDistance(rows) \div weeks,
          peak_weekly_miles |->
              Max({SumDistance({r \in rows : WeekOf(r.activity_date) = wk}) :
                      wk \in {WeekOf(r.activity_date) : r \in rows}}),
          longest_run_mi |-> Max({r.distance_km : r \in rows}),
          races_logged |-> Cardinality({r \in rows : r.is_race}),
          weeks_of_data |-> weeks]

\* Mutant: the selection has no `activity_date >= cutoff` condition.
get_training_log_stats_NoCutoff(athlete_hash, weeks) ==
    LET rows == {r \in training_log : r.athlete_hash = athlete_hash}
    IN  IF ~pool THEN EmptyStats
        ELSE IF rows = {} THEN EmptyStats
        ELSE StatsOf(rows, weeks)

\* SELECT * FROM training_log WHERE athlete_hash = $1 AND activity_date >= $2
\* with $2 = today - weeks, then the aggregation of the rows
get_training_log_stats(athlete_hash, weeks) ==
    LET cutoff == Today - 7 * weeks
        rows == {r \in training_log :
                    r.athlete_hash = athlete_hash /\ r.activity_date >= cutoff}
    IN  IF ~pool THEN EmptyStats
        ELSE IF rows = {} THEN EmptyStats
        ELSE StatsOf(rows, weeks)

----------------------------------------------------------------------------
(* detect_race_results (training_processor.py) *)

\* list.sort(key = ...): a stable sort of a sequence of [key, val] records
\* by ascending key; elements of equal key keep their order
InsertByKey(sorted, x) ==
    LET n == Cardinality({i \in 1..Len(sorted) : sorted[i].key <= x.key})
    IN  SubSeq(sorted, 1, n) \o <<x>> \o SubSeq(sorted, n + 1, Len(sorted))

RECURSIVE StableSort(_)
StableSort(s) ==
    IF s = <<>> THEN <<>>
    ELSE InsertByKey(StableSort(SubSeq(s, 1, Len(s) - 1)), s[Len(s)])

\* the values of a sequence of [key, val] records
ValuesOf(s) == [i \in 1..Len(s) |-> s[i].val]

\* the dict appended to `matches` for an activity
MatchOf(act) ==
    [activity_id |-> act.id,
     date |-> act.start_date,
     distance_km |-> act.distance,
     time_seconds |-> act.moving_time,
     elevation_gain_ft |-> (act.total_elevation_gain * 3281) \div 1000,
     is_race |-> (act.workout_type = RaceWorkoutType),
     average_heartrate |-> act.average_heartrate]

\* the filter of the loop: a run of positive distance with
\* abs(dist_km - goal_distance_km) / goal_distance_km <= tolerance, for a
\* positive goal distance
DetectKeeps(act, goal_distance_km, tolerance) ==
    /\ act.type = "Run"
    /\ act.distance > 0
    /\ Abs(act.distance - goal_distance_km) * 100 <= tolerance * goal_distance_km

\* matches.sort(key=lambda x: (not x["is_race"], x["date"]), reverse=False)
\* matches.sort(key=lambda x: x["date"], reverse=True)
\* Dates are day numbers below 1000.  A stable descending sort is a stable
\* ascending sort on the negated key.
detect_race_results(activities, goal_distance_km, tolerance) ==
    LET kept == SelectSeq(activities,
                          LAMBDA act : DetectKeeps(act, goal_distance_km, tolerance))
        matches == [i \in 1..Len(kept) |-> MatchOf(kept[i])]
        first == ValuesOf(StableSort(
                    [i \in 1..Len(matches) |->
                        [key |-> (IF matches[i].is_race THEN 0 ELSE 1) * 1000
                                   + matches[i].date,
                         val |-> matches[i]]]))
        second == ValuesOf(StableSort(
                    [i \in 1..Len(first) |->
                        [key |-> 0 - first[i].date, val |-> first[i]]]))
    IN  second

----------------------------------------------------------------------------
(* Pending predictions *)

\* Mutant: the expiry is 365 days from creation whatever the goal race date.
store_pending_prediction_NoRaceDate(table, id, athlete_id, goal_distance_km, predicted_time_seconds, goal_race_date) ==
    IF ~pool THEN table
    ELSE table \cup
         {[id |-> id,
           athlete_id |-> athlete_id,
           athlete_hash |-> hash_athlete_id(athlete_id),
           snapshot_id |-> Null,
           ref_distance_km |-> 5000,
           ref_time_seconds |-> 1400,
           ref_date |-> 1,
           goal_distance_km |-> goal_distance_km,
           predicted_time_seconds |-> predicted_time_seconds,
           goal_race_name |-> "goal race",
           goal_race_date |-> goal_race_date,
           match_window_days |-> DefaultMatchWindowDays,
           distance_tolerance |-> DefaultTolerancePct,
           status |-> "pending",
           created_at |-> now,
           expires_at |-> now + ExpiryDaysNoRace * SecondsPerDay,
           matched_at |-> Null,
           matched_activity_id |-> Null]}

\* store_pending_prediction's INSERT: the row with the column defaults.
\* expires_at is race_dt + 7 days when a goal race date is given, else
\* utcnow() + 365 days.
store_pending_prediction(table, id, athlete_id, goal_distance_km, predicted_time_seconds, goal_race_date) ==
    IF ~pool THEN table
    ELSE table \cup
         {[id |-> id,
           athlete_id |-> athlete_id,
           athlete_hash |-> hash_athlete_id(athlete_id),
           snapshot_id |-> Null,
           ref_distance_km |-> 5000,
           ref_time_seconds |-> 1400,
           ref_date |-> 1,
           goal_distance_km |-> goal_distance_km,
           predicted_time_seconds |-> predicted_time_seconds,
           goal_race_name |-> "goal race",
           goal_race_date |-> goal_race_date,
           match_window_days |-> DefaultMatchWindowDays,
           distance_tolerance |-> DefaultTolerancePct,
           status |-> "pending",
           created_at |-> now,
           expires_at |-> IF goal_race_date # Null
                          THEN (goal_race_date + ExpiryDaysAfterRace) * SecondsPerDay
                          ELSE now + ExpiryDaysNoRace * SecondsPerDay,
           matched_at |-> Null,
           matched_activity_id |-> Null]}

\* Mutant: the selection has no `athlete_id = $1` condition.
PendingRows_AnyAthlete(athlete_id) ==
    {r \in pending_predictions :
        /\ r.status = "pending"
        /\ r.expires_at > now}

\* Mutant: the expiry test is `expires_at >= NOW()`.
PendingRows_Inclusive(athlete_id) ==
    {r \in pending_predictions :
        /\ r.athlete_id = athlete_id
        /\ r.status = "pending"
        /\ r.expires_at >= now}

\* SELECT ... WHERE athlete_id = $1 AND status = 'pending' AND
\* expires_at > NOW(): the rows selected.
PendingRows(athlete_id) ==
    {r \in pending_predictions :
        /\ r.athlete_id = athlete_id
        /\ r.status = "pending"
        /\ r.expires_at > now}

\* Mutant: ORDER BY created_at ASC, the oldest prediction first.
OrderedByCreatedDesc_Asc(rows) ==
    {s \in [1..Cardinality(rows) -> rows] :
        /\ \A i, j \in 1..Cardinality(rows) : i # j => s[i] # s[j]
        /\ \A i, j \in 1..Cardinality(rows) :
              i < j => s[i].created_at <= s[j].created_at}

\* ORDER BY created_at DESC: every order of the rows the clause allows (rows
\* created at the same instant come back in either order).
OrderedByCreatedDesc(rows) ==
    {s \in [1..Cardinality(rows) -> rows] :
        /\ \A i, j \in 1..Cardinality(rows) : i # j => s[i] # s[j]
        /\ \A i, j \in 1..Cardinality(rows) :
              i < j => s[i].created_at >= s[j].created_at}

get_pending_predictions(athlete_id) ==
    IF ~pool THEN {<<>>} ELSE OrderedByCreatedDesc(PendingRows(athlete_id))

\* Mutant: the UPDATE sets the status only.
match_prediction_StatusOnly(table, prediction_id, activity_id) ==
    IF ~pool THEN table
    ELSE {IF r.id = prediction_id
          THEN [r EXCEPT !.status = "matched"]
          ELSE r : r \in table}

\* UPDATE pending_predictions SET status = 'matched', matched_at = NOW(),
\* matched_activity_id = $2 WHERE id = $1
match_prediction(table, prediction_id, activity_id) ==
    IF ~pool THEN table
    ELSE {IF r.id = prediction_id
          THEN [r EXCEPT !.status = "matched",
                         !.matched_at = now,
                         !.matched_activity_id = activity_id]
          ELSE r : r \in table}

\* Mutant: the UPDATE has no `status = 'pending'` condition.
expire_old_predictions_AnyStatus(table) ==
    IF ~pool THEN table
    ELSE {IF r.expires_at < now
          THEN [r EXCEPT !.status = "expired"]
          ELSE r : r \in table}

\* UPDATE pending_predictions SET status = 'expired'
\* WHERE status = 'pending' AND expires_at < NOW()
expire_old_predictions(table) ==
    IF ~pool THEN table
    ELSE {IF r.status = "pending" /\ r.expires_at < now
          THEN [r EXCEPT !.status = "expired"]
          ELSE r : r \in table}

----------------------------------------------------------------------------
(* Race results *)

\* store_race_result's INSERT.  The field `origin` is not a column of the
\* table: it records, for the properties below, which invocation wrote the
\* row and for which prediction and activity.
store_race_result(table, id, strava_athlete_id, snapshot_id, ref_distance_km, ref_time_seconds, ref_date, goal_distance_km, goal_time_seconds, goal_date, goal_elevation_gain_ft, predicted_time_seconds, source, origin) ==
    LET has_error == predicted_time_seconds # 0 /\ predicted_time_seconds # Null
                     /\ goal_time_seconds # 0
        prediction_error == predicted_time_seconds - goal_time_seconds
    IN  table \cup
        {[id |-> id,
          snapshot_id |-> snapshot_id,
          athlete_hash |-> hash_athlete_id(strava_athlete_id),
          ref_distance_km |-> ref_distance_km,
          ref_time_seconds |-> ref_time_seconds,
          ref_date |-> ref_date,
          goal_distance_km |-> goal_distance_km,
          goal_time_seconds |-> goal_time_seconds,
          goal_date |-> ParseDate(goal_date).date,
          goal_elevation_gain_ft |-> goal_elevation_gain_ft,
          predicted_time_seconds |-> predicted_time_seconds,
          prediction_error_seconds |-> IF has_error THEN prediction_error ELSE Null,
          prediction_error_pct |->
              IF has_error
              THEN [num |-> prediction_error * 100, den |-> goal_time_seconds]
              ELSE [num |-> Null, den |-> Null],
          model_version |-> "riegel_v1",
          source |-> source,
          origin |-> origin]}

----------------------------------------------------------------------------
(* The matching policy of process_activity_event's loop *)

\* `dist_km <= 0 or abs(dist_km - goal_km) / goal_km > tolerance`, with the
\* division by a zero goal distance raising ZeroDivisionError.
DistanceRaises(dist, pred) == dist > 0 /\ pred.goal_distance_km = 0

\* Mutant: a deviation of exactly the tolerance is skipped too.
DistanceSkips_Strict(dist, pred) ==
    \/ dist <= 0
    \/ /\ pred.goal_distance_km > 0
       /\ Abs(dist - pred.goal_distance_km) * 100
             >= pred.distance_tolerance * pred.goal_distance_km

DistanceSkips(dist, pred) ==
    \/ dist <= 0
    \/ /\ pred.goal_distance_km > 0
       /\ Abs(dist - pred.goal_distance_km) * 100
             > pred.distance_tolerance * pred.goal_distance_km

\* Mutant: a prediction without goal race date passes no activity.
DateSkips_RequiresDate(activity_date, pred) ==
    \/ pred.goal_race_date = Null
    \/ ~ (/\ pred.goal_race_date - 1 <= activity_date
          /\ activity_date <= pred.goal_race_date + pred.match_window_days)

\* Mutant: the last day of the window is excluded.
DateSkips_Exclusive(activity_date, pred) ==
    /\ pred.goal_race_date # Null
    /\ ~ (/\ pred.goal_race_date - 1 <= activity_date
          /\ activity_date < pred.goal_race_date + pred.match_window_days)

DateSkips(activity_date, pred) ==
    /\ pred.goal_race_date # Null
    /\ ~ (/\ pred.goal_race_date - 1 <= activity_date
          /\ activity_date <= pred.goal_race_date + pred.match_window_days)

\* The loop over `pending` from position i on: the first prediction that
\* survives both filters, or none, or the exception the scan raises.
RECURSIVE Scan(_, _, _, _)
Scan(pending, i, dist, activity_date) ==
    IF i > Len(pending) THEN [kind |-> "none"]
    ELSE IF DistanceRaises(dist, pending[i]) THEN [kind |-> "raise"]
    ELSE IF DistanceSkips(dist, pending[i]) THEN Scan(pending, i + 1, dist, activity_date)
    ELSE IF DateSkips(activity_date, pending[i]) THEN Scan(pending, i + 1, dist, activity_date)
    ELSE [kind |-> "match", pred |-> pending[i]]


----------------------------------------------------------------------------
(* process_activity_event: local state *)

\* no function has been called directly yet
NoCall == [fn |-> "none"]
NoData == [access_token |-> Null, refresh_token |-> Null, expires_at |-> Null]
NoActivity == [type |-> "none"]
NoPred == [id |-> Null]

InitEv ==
    [pc |-> "idle", athlete_id |-> Null, activity_id |-> Null,
     tokens |-> NoTokens, data |-> NoData, access_token |-> Null,
     activity |-> NoActivity, log_values |-> [ok |-> FALSE], log_id |-> Null,
     pred |-> NoPred, race_result_id |-> Null,
     result |-> [action |-> "none"]]

InitObs ==
    [gate |-> "unseen",          \* what the consent gate read
     token_path |-> "none",      \* how refresh_athlete_token ended
     refresh_calls |-> 0,        \* POSTs to the upstream refresh endpoint
     refresh_status |-> Null,    \* status of the last such POST
     cred_writes |-> 0,          \* update_tokens calls
     fetch_calls |-> 0,          \* GETs of the activity detail
     fetch_status |-> Null,      \* status of the last such GET
     bearer |-> Null,            \* the access token presented with that GET
     fetched |-> NoActivity,     \* the activity that GET returned
     log_calls |-> 0,            \* log_activity calls
     log_upserts |-> 0,          \* training_log INSERTs
     pending_reads |-> 0,        \* get_pending_predictions calls
     pending_seen |-> 0,         \* predictions the last such call returned
     rr_writes |-> 0,            \* race_results INSERTs
     match_calls |-> 0]          \* match_prediction calls

\* `return result`: the invocation is over; only its result remains.
Return(e, result) ==
    [InitEv EXCEPT !.pc = "done", !.athlete_id = e.athlete_id,
                   !.activity_id = e.activity_id, !.result = result]

\* an exception leaves process_activity_event: there is no result.
Raise(e) ==
    [InitEv EXCEPT !.pc = "raised", !.athlete_id = e.athlete_id,
                   !.activity_id = e.activity_id]

\* Lines 106-117: the fields read from the raw activity, then the date parse
\* whose failure returns the result so far.
AfterLog(e, result) ==
    IF e.activity.start_date = Null THEN Raise(e)
    ELSE IF ~ParseDate(e.activity.start_date).ok THEN Return(e, result)
    ELSE [e EXCEPT !.pc = "get_pending", !.result = result]

----------------------------------------------------------------------------
(* process_activity_event: one action per awaited call *)

StartEvent(p, athlete_id, activity_id) ==
    /\ ev[p].pc \in {"idle", "done", "raised"}
    /\ started' = started + 1
    /\ ev' = [ev EXCEPT ![p] =
                [InitEv EXCEPT !.pc = "consent",
                               !.athlete_id = athlete_id,
                               !.activity_id = activity_id,
                               !.result = [athlete_id |-> athlete_id,
                                           activity_id |-> activity_id,
                                           action |-> "skipped",
                                           logged |-> FALSE,
                                           reason |-> ""]]]
    /\ obs' = [obs EXCEPT ![p] = InitObs]
    /\ UNCHANGED <<ret, pool, fernet, now, store, issued, ticks>>

\* Mutant: the consent gate is skipped.
CheckConsent_NoGate(p) ==
    /\ ev[p].pc = "consent"
    /\ ev' = [ev EXCEPT ![p].pc = "get_tokens"]
    /\ obs' = [obs EXCEPT ![p].gate = "yes"]
    /\ UNCHANGED <<ret, pool, fernet, now, store, issued, started, ticks>>

\* if not await get_consent(athlete_id)
CheckConsent(p) ==
    LET e == ev[p] IN
    /\ e.pc = "consent"
    /\ IF ~get_consent(e.athlete_id)
       THEN /\ ev' = [ev EXCEPT ![p] =
                        Return(e, [e.result EXCEPT !.reason = "not opted in"])]
            /\ obs' = [obs EXCEPT ![p].gate = "no"]
       ELSE /\ ev' = [ev EXCEPT ![p].pc = "get_tokens"]
            /\ obs' = [obs EXCEPT ![p].gate = "yes"]
    /\ UNCHANGED <<ret, pool, fernet, now, store, issued, started, ticks>>

\* Mutant: the grace test is `>=` instead of `>`.
GetTokens_Inclusive(p) ==
    LET e == ev[p]
        tokens == get_tokens(e.athlete_id)
    IN
    /\ e.pc = "get_tokens"
    /\ IF ~tokens.found
       THEN /\ ev' = [ev EXCEPT ![p] =
                        Return(e, [e.result EXCEPT !.reason = "token refresh failed"])]
            /\ obs' = [obs EXCEPT ![p].token_path = "no_credential"]
       ELSE IF tokens.expires_at >= now + GraceSeconds
       THEN /\ ev' = [ev EXCEPT ![p].pc = "fetch",
                                ![p].access_token = tokens.access_token]
            /\ obs' = [obs EXCEPT ![p].token_path = "grace"]
       ELSE /\ ev' = [ev EXCEPT ![p].pc = "refresh_post", ![p].tokens = tokens]
            /\ UNCHANGED obs
    /\ UNCHANGED <<ret, pool, fernet, now, store, issued, started, ticks>>

\* refresh_athlete_token up to the upstream POST: get_tokens and the grace test
GetTokens(p) ==
    LET e == ev[p]
        tokens == get_tokens(e.athlete_id)
    IN
    /\ e.pc = "get_tokens"
    /\ IF ~tokens.found
       THEN /\ ev' = [ev EXCEPT ![p] =
                        Return(e, [e.result EXCEPT !.reason = "token refresh failed"])]
            /\ obs' = [obs EXCEPT ![p].token_path = "no_credential"]
       ELSE IF tokens.expires_at > now + GraceSeconds
       THEN /\ ev' = [ev EXCEPT ![p].pc = "fetch",
                                ![p].access_token = tokens.access_token]
            /\ obs' = [obs EXCEPT ![p].token_path = "grace"]
       ELSE /\ ev' = [ev EXCEPT ![p].pc = "refresh_post", ![p].tokens = tokens]
            /\ UNCHANGED obs
    /\ UNCHANGED <<ret, pool, fernet, now, store, issued, started, ticks>>

\* Mutant: a failed refresh deletes the athlete's stored credential.
RefreshPost_ClearsOnFailure(p, status, offset) ==
    LET e == ev[p] IN
    /\ e.pc = "refresh_post"
    /\   IF status # HttpOk
         THEN /\ ev' = [ev EXCEPT ![p] =
                          Return(e, [e.result EXCEPT !.reason = "token refresh failed"])]
              /\ obs' = [obs EXCEPT ![p].token_path = "refresh_failed",
                                    ![p].refresh_calls = @ + 1,
                                    ![p].refresh_status = status]
              /\ athlete_tokens' = {r \in athlete_tokens : r.athlete_id # e.athlete_id}
              /\ UNCHANGED issued
         ELSE /\ issued' = issued + 1
              /\ ev' = [ev EXCEPT ![p].pc = "update_tokens",
                                  ![p].data = [access_token |-> AccessOf(issued + 1),
                                               refresh_token |-> RefreshOf(issued + 1),
                                               expires_at |-> now + offset]]
              /\ obs' = [obs EXCEPT ![p].refresh_calls = @ + 1,
                                    ![p].refresh_status = status]
              /\ UNCHANGED athlete_tokens
    /\ UNCHANGED <<ret, pool, fernet, now, data_consent, training_log,
                   pending_predictions, race_results, seqs, started, ticks>>

\* Mutant: a failed refresh falls back on the stale stored access token.
RefreshPost_FailureUsesStale(p, status, offset) ==
    LET e == ev[p] IN
    /\ e.pc = "refresh_post"
    /\   IF status # HttpOk
         THEN /\ ev' = [ev EXCEPT ![p].pc = "fetch",
                                  ![p].access_token = e.tokens.access_token]
              /\ obs' = [obs EXCEPT ![p].token_path = "refresh_failed",
                                    ![p].refresh_calls = @ + 1,
                                    ![p].refresh_status = status]
              /\ UNCHANGED issued
         ELSE /\ issued' = issued + 1
              /\ ev' = [ev EXCEPT ![p].pc = "update_tokens",
                                  ![p].data = [access_token |-> AccessOf(issued + 1),
                                               refresh_token |-> RefreshOf(issued + 1),
                                               expires_at |-> now + offset]]
              /\ obs' = [obs EXCEPT ![p].refresh_calls = @ + 1,
                                    ![p].refresh_status = status]
    /\ UNCHANGED <<ret, pool, fernet, now, store, started, ticks>>

\* the POST to the upstream refresh endpoint and the status test
RefreshPost(p, status, offset) ==
    LET e == ev[p] IN
    /\ e.pc = "refresh_post"
    /\   IF status # HttpOk
         THEN /\ ev' = [ev EXCEPT ![p] =
                          Return(e, [e.result EXCEPT !.reason = "token refresh failed"])]
              /\ obs' = [obs EXCEPT ![p].token_path = "refresh_failed",
                                    ![p].refresh_calls = @ + 1,
                                    ![p].refresh_status = status]
              /\ UNCHANGED issued
         ELSE /\ issued' = issued + 1
              /\ ev' = [ev EXCEPT ![p].pc = "update_tokens",
                                  ![p].data = [access_token |-> AccessOf(issued + 1),
                                               refresh_token |-> RefreshOf(issued + 1),
                                               expires_at |-> now + offset]]
              /\ obs' = [obs EXCEPT ![p].refresh_calls = @ + 1,
                                    ![p].refresh_status = status]
    /\ UNCHANGED <<ret, pool, fernet, now, store, started, ticks>>

\* await update_tokens(...); return data["access_token"]
UpdateTokens(p) ==
    LET e == ev[p] IN
    /\ e.pc = "update_tokens"
    /\ athlete_tokens' = update_tokens(athlete_tokens, e.athlete_id,
                                       e.data.access_token, e.data.refresh_token,
                                       e.data.expires_at)
    /\ ev' = [ev EXCEPT ![p].pc = "fetch",
                        ![p].access_token = e.data.access_token,
                        ![p].tokens = NoTokens, ![p].data = NoData]
    /\ obs' = [obs EXCEPT ![p].token_path = "refreshed",
                          ![p].cred_writes = @ + 1]
    /\ UNCHANGED <<ret, pool, fernet, now, data_consent, training_log,
                   pending_predictions, race_results, seqs, issued, started, ticks>>

\* Mutant: a failed fetch is tried again.
FetchActivity_Retry(p, status, activity) ==
    LET e == ev[p] IN
    /\ e.pc = "fetch"
    /\ activity.id = e.activity_id
    /\   /\ obs' = [obs EXCEPT ![p].fetch_calls = @ + 1,
                               ![p].fetch_status = status,
                               ![p].bearer = e.access_token,
                               ![p].fetched = IF status = HttpOk THEN activity
                                              ELSE NoActivity]
         /\ IF status # HttpOk
            THEN IF obs[p].fetch_calls = 0
                 THEN UNCHANGED ev
                 ELSE ev' = [ev EXCEPT ![p] =
                          Return(e, [e.result EXCEPT !.reason = "activity fetch failed"])]
            ELSE IF activity.type # "Run"
            THEN ev' = [ev EXCEPT ![p] =
                          Return(e, [e.result EXCEPT !.reason = "not a run"])]
            ELSE ev' = [ev EXCEPT ![p].pc = "log_consent",
                                  ![p].activity = activity]
    /\ UNCHANGED <<ret, pool, fernet, now, store, issued, started, ticks>>

\* Mutant: the type filter is missing, every fetched activity is processed.
FetchActivity_NoTypeFilter(p, status, activity) ==
    LET e == ev[p] IN
    /\ e.pc = "fetch"
    /\ activity.id = e.activity_id
    /\   /\ obs' = [obs EXCEPT ![p].fetch_calls = @ + 1,
                               ![p].fetch_status = status,
                               ![p].bearer = e.access_token,
                               ![p].fetched = IF status = HttpOk THEN activity
                                              ELSE NoActivity]
         /\ IF status # HttpOk
            THEN ev' = [ev EXCEPT ![p] =
                          Return(e, [e.result EXCEPT !.reason = "activity fetch failed"])]
            ELSE ev' = [ev EXCEPT ![p].pc = "log_consent",
                                  ![p].activity = activity]
    /\ UNCHANGED <<ret, pool, fernet, now, store, issued, started, ticks>>

\* Mutant: the result records the bearer token the activity was fetched with.
FetchActivity_LeaksToken(p, status, activity) ==
    LET e == ev[p]
        leaked == e.result @@ [bearer |-> e.access_token]
    IN
    /\ e.pc = "fetch"
    /\ activity.id = e.activity_id
    /\   /\ obs' = [obs EXCEPT ![p].fetch_calls = @ + 1,
                               ![p].fetch_status = status,
                               ![p].bearer = e.access_token,
                               ![p].fetched = IF status = HttpOk THEN activity
                                              ELSE NoActivity]
         /\ IF status # HttpOk
            THEN ev' = [ev EXCEPT ![p] =
                          Return(e, [leaked EXCEPT !.reason = "activity fetch failed"])]
            ELSE IF activity.type # "Run"
            THEN ev' = [ev EXCEPT ![p] =
                          Return(e, [leaked EXCEPT !.reason = "not a run"])]
            ELSE ev' = [ev EXCEPT ![p].pc = "log_consent",
                                  ![p].activity = activity,
                                  ![p].result = leaked]
    /\ UNCHANGED <<ret, pool, fernet, now, store, issued, started, ticks>>

\* Mutant: the activity is written to the training log before the type
\* filter is applied.
FetchActivity_LogsBeforeFilter(p, status, activity) ==
    LET e == ev[p]
        v == log_activity_values(e.athlete_id, activity)
    IN
    /\ e.pc = "fetch"
    /\ activity.id = e.activity_id
    /\   /\ obs' = [obs EXCEPT ![p].fetch_calls = @ + 1,
                               ![p].fetch_status = status,
                               ![p].bearer = e.access_token,
                               ![p].fetched = IF status = HttpOk THEN activity
                                              ELSE NoActivity]
         /\ IF status = HttpOk /\ v.ok
            THEN /\ training_log' =
                      log_activity_upsert(training_log, v, seqs.training_log + 1).table
                 /\ seqs' = [seqs EXCEPT !.training_log = @ + 1]
            ELSE UNCHANGED <<training_log, seqs>>
         /\ IF status # HttpOk
            THEN ev' = [ev EXCEPT ![p] =
                          Return(e, [e.result EXCEPT !.reason = "activity fetch failed"])]
            ELSE IF activity.type # "Run"
            THEN ev' = [ev EXCEPT ![p] =
                          Return(e, [e.result EXCEPT !.reason = "not a run"])]
            ELSE ev' = [ev EXCEPT ![p].pc = "log_consent",
                                  ![p].activity = activity]
    /\ UNCHANGED <<ret, pool, fernet, now, data_consent, athlete_tokens,
                   pending_predictions, race_results, issued, started, ticks>>

\* fetch_activity, then the type filter
FetchActivity(p, status, activity) ==
    LET e == ev[p] IN
    /\ e.pc = "fetch"
    /\ activity.id = e.activity_id
    /\   /\ obs' = [obs EXCEPT ![p].fetch_calls = @ + 1,
                               ![p].fetch_status = status,
                               ![p].bearer = e.access_token,
                               ![p].fetched = IF status = HttpOk THEN activity
                                              ELSE NoActivity]
         /\ IF status # HttpOk
            THEN ev' = [ev EXCEPT ![p] =
                          Return(e, [e.result EXCEPT !.reason = "activity fetch failed"])]
            ELSE IF activity.type # "Run"
            THEN ev' = [ev EXCEPT ![p] =
                          Return(e, [e.result EXCEPT !.reason = "not a run"])]
            ELSE ev' = [ev EXCEPT ![p].pc = "log_consent",
                                  ![p].activity = activity]
    /\ UNCHANGED <<ret, pool, fernet, now, store, issued, started, ticks>>

\* log_activity up to its INSERT
LogConsent(p) ==
    LET e == ev[p]
        v == log_activity_values(e.athlete_id, e.activity)
    IN
    /\ e.pc = "log_consent"
    /\ IF v.ok
       THEN ev' = [ev EXCEPT ![p].pc = "log_insert", ![p].log_values = v]
       ELSE ev' = [ev EXCEPT ![p] = AfterLog(e, e.result)]
    /\ obs' = [obs EXCEPT ![p].log_calls = @ + 1]
    /\ UNCHANGED <<ret, pool, fernet, now, store, issued, started, ticks>>

\* log_activity's INSERT ... ON CONFLICT, then lines 101-115
LogInsert(p) ==
    LET e == ev[p]
        up == log_activity_upsert(training_log, e.log_values, seqs.training_log + 1)
    IN
    /\ e.pc = "log_insert"
    /\ training_log' = up.table
    /\ seqs' = [seqs EXCEPT !.training_log = @ + 1]
    /\ ev' = [ev EXCEPT ![p] =
                AfterLog([e EXCEPT !.log_id = up.id, !.log_values = [ok |-> FALSE]],
                         [e.result EXCEPT !.logged = TRUE, !.action = "logged"])]
    /\ obs' = [obs EXCEPT ![p].log_upserts = @ + 1]
    /\ UNCHANGED <<ret, pool, fernet, now, data_consent, athlete_tokens,
                   pending_predictions, race_results, issued, started, ticks>>

\* get_pending_predictions, then the loop up to the first match
GetPending(p) ==
    LET e == ev[p] IN
    /\ e.pc = "get_pending"
    /\ \E pending \in get_pending_predictions(e.athlete_id) :
         LET sc == Scan(pending, 1, e.activity.distance,
                        ParseDate(e.activity.start_date).date)
         IN  /\ IF pending = <<>> \/ sc.kind = "none"
                THEN ev' = [ev EXCEPT ![p] = Return(e, e.result)]
                ELSE IF sc.kind = "raise"
                THEN ev' = [ev EXCEPT ![p] = Raise(e)]
                ELSE ev' = [ev EXCEPT ![p].pc = "rr_consent", ![p].pred = sc.pred]
             /\ obs' = [obs EXCEPT ![p].pending_reads = @ + 1,
                                   ![p].pending_seen = Len(pending)]
    /\ UNCHANGED <<ret, pool, fernet, now, store, issued, started, ticks>>

\* store_race_result up to its INSERT
RaceResultConsent(p) ==
    LET e == ev[p] IN
    /\ e.pc = "rr_consent"
    /\ IF pool /\ get_consent(e.athlete_id)
       THEN ev' = [ev EXCEPT ![p].pc = "rr_insert"]
       ELSE ev' = [ev EXCEPT ![p].pc = "match", ![p].race_result_id = Null]
    /\ UNCHANGED <<ret, pool, fernet, now, store, issued, started, ticks, obs>>

\* store_race_result's INSERT
RaceResultInsert(p) ==
    LET e == ev[p]
        id == seqs.race_results + 1
    IN
    /\ e.pc = "rr_insert"
    /\ race_results' =
         store_race_result(race_results, id, e.athlete_id, e.pred.snapshot_id,
                           e.pred.ref_distance_km, e.pred.ref_time_seconds,
                           e.pred.ref_date, e.activity.distance,
                           e.activity.moving_time, e.activity.start_date,
                           (e.activity.total_elevation_gain * 3281) \div 1000,
                           e.pred.predicted_time_seconds, "webhook",
                           [proc |-> p, prediction_id |-> e.pred.id,
                            activity_id |-> e.activity_id])
    /\ seqs' = [seqs EXCEPT !.race_results = id]
    /\ ev' = [ev EXCEPT ![p].pc = "match", ![p].race_result_id = id]
    /\ obs' = [obs EXCEPT ![p].rr_writes = @ + 1]
    /\ UNCHANGED <<ret, pool, fernet, now, data_consent, athlete_tokens, training_log,
                   pending_predictions, issued, started, ticks>>

\* match_prediction, then the matched result
MatchPrediction(p) ==
    LET e == ev[p] IN
    /\ e.pc = "match"
    /\ pending_predictions' =
         match_prediction(pending_predictions, e.pred.id, e.activity_id)
    /\ ev' = [ev EXCEPT ![p] =
                Return(e, [e.result EXCEPT !.action = "matched"] @@
                          [prediction_id |-> e.pred.id,
                           race_result_id |-> e.race_result_id,
                           goal_distance_km |-> e.pred.goal_distance_km,
                           predicted_seconds |-> e.pred.predicted_time_seconds,
                           actual_seconds |-> e.activity.moving_time,
                           error_seconds |-> e.pred.predicted_time_seconds
                                               - e.activity.moving_time,
                           is_race |-> (e.activity.workout_type = RaceWorkoutType),
                           race_name |-> e.pred.goal_race_name])]
    /\ obs' = [obs EXCEPT ![p].match_calls = @ + 1]
    /\ UNCHANGED <<ret, pool, fernet, now, data_consent, athlete_tokens, training_log,
                   race_results, seqs, issued, started, ticks>>

----------------------------------------------------------------------------
(* The callers of the store outside process_activity_event *)

SetConsent(athlete_id, opted_in) ==
    /\ data_consent' = set_consent(data_consent, athlete_id, opted_in)
    /\ data_consent' # data_consent
    /\ UNCHANGED <<ret, pool, fernet, now, athlete_tokens, training_log,
                   pending_predictions, race_results, seqs, issued, started,
                   ticks, ev, obs>>

\* the authorization flow stores the first credential of an athlete: the
\* pair of the provider's grant 0
StoreTokens(athlete_id, offset) ==
    /\ ~ \E r \in athlete_tokens : r.athlete_id = athlete_id
    /\ athlete_tokens' = store_tokens(athlete_tokens, athlete_id,
                                      AccessOf(0), RefreshOf(0), now + offset)
    /\ athlete_tokens' # athlete_tokens
    /\ UNCHANGED <<ret, pool, fernet, now, data_consent, training_log,
                   pending_predictions, race_results, seqs, issued, started,
                   ticks, ev, obs>>

StorePendingPrediction(athlete_id, goal_distance_km, predicted_time_seconds, goal_race_date) ==
    /\ pool
    /\ pending_predictions' =
         store_pending_prediction(pending_predictions, seqs.pending_predictions + 1,
                                  athlete_id, goal_distance_km,
                                  predicted_time_seconds, goal_race_date)
    /\ seqs' = [seqs EXCEPT !.pending_predictions = @ + 1]
    /\ UNCHANGED <<ret, pool, fernet, now, data_consent, athlete_tokens, training_log,
                   race_results, issued, started, ticks, ev, obs>>

ExpireOldPredictions ==
    /\ pending_predictions' = expire_old_predictions(pending_predictions)
    /\ pending_predictions' # pending_predictions
    /\ UNCHANGED <<ret, pool, fernet, now, data_consent, athlete_tokens, training_log,
                   race_results, seqs, issued, started, ticks, ev, obs>>

\* time passes
Tick(step) ==
    /\ ticks' = ticks + 1
    /\ now' = now + step
    /\ UNCHANGED <<ret, pool, fernet, store, issued, started, ev, obs>>

\* a direct call of get_training_log_stats
GetTrainingLogStats(athlete_id, weeks) ==
    /\ ret' = [fn |-> "get_training_log_stats",
               athlete_hash |-> hash_athlete_id(athlete_id),
               weeks |-> weeks,
               value |-> get_training_log_stats(hash_athlete_id(athlete_id), weeks)]
    /\ UNCHANGED <<pool, fernet, now, store, issued, started, ticks, ev, obs>>

\* a direct call of get_pending_predictions
GetPendingPredictions(athlete_id) ==
    /\ \E pending \in get_pending_predictions(athlete_id) :
          ret' = [fn |-> "get_pending_predictions",
                  athlete_id |-> athlete_id,
                  value |-> pending]
    /\ UNCHANGED <<pool, fernet, now, store, issued, started, ticks, ev, obs>>

\* the athlete authorizes again: store_tokens with the pair of a new grant
StoreTokensAgain(athlete_id, offset) ==
    /\ \E r \in athlete_tokens : r.athlete_id = athlete_id
    /\ issued' = issued + 1
    /\ athlete_tokens' = store_tokens(athlete_tokens, athlete_id,
                                      AccessOf(issued + 1), RefreshOf(issued + 1),
                                      now + offset)
    /\ UNCHANGED <<ret, pool, fernet, now, data_consent, training_log,
                   pending_predictions, race_results, seqs, started,
                   ticks, ev, obs>>

\* check_for_race: detect_race_results on the activities it has fetched
CheckForRace(goal_distance_km) ==
    /\ ret.fn = "athlete_activities"
    /\ ret' = [fn |-> "detect_race_results",
               activities |-> ret.value,
               goal_distance_km |-> goal_distance_km,
               value |-> detect_race_results(ret.value, goal_distance_km,
                                             DefaultTolerancePct)]
    /\ UNCHANGED <<pool, fernet, now, store, issued, started, ticks, ev, obs>>

\* delete_athlete_data: one transaction that deletes the athlete's rows of
\* every table (training_snapshots, which no other modelled function
\* touches, is left out)
DeleteAthleteData(athlete_id) ==
    LET athlete_hash == hash_athlete_id(athlete_id) IN
    /\ ret' = [fn |-> "delete_athlete_data", athlete_id |-> athlete_id]
    /\ IF ~pool
       THEN UNCHANGED <<data_consent, athlete_tokens, training_log,
                        pending_predictions, race_results>>
       ELSE /\ race_results' = DeleteRowsOf(race_results, athlete_hash)
            /\ training_log' = DeleteRowsOf(training_log, athlete_hash)
            /\ pending_predictions' = DeleteRowsOf(pending_predictions, athlete_hash)
            /\ athlete_tokens' = DeleteRowsOf(athlete_tokens, athlete_hash)
            /\ data_consent' = DeleteRowsOf(data_consent, athlete_hash)
    /\ UNCHANGED <<pool, fernet, now, seqs, issued, started, ticks, ev, obs>>

----------------------------------------------------------------------------
(* Inputs *)

\* HTTP statuses the two upstream endpoints answer with
RefreshStatuses == {HttpOk, 400}
FetchStatuses == {HttpOk, 404}
GoalDistances == {10000}
PredictedTimes == {3100}
InitNow == 16 * SecondsPerDay

EmptyStore ==
    /\ now = InitNow
    /\ data_consent = {}
    /\ athlete_tokens = {}
    /\ training_log = {}
    /\ pending_predictions = {}
    /\ race_results = {}
    /\ seqs = [training_log |-> 0, pending_predictions |-> 0, race_results |-> 0]
    /\ issued = 0
    /\ started = 0
    /\ ticks = 0
    /\ ev = [p \in Procs |-> InitEv]
    /\ obs = [p \in Procs |-> InitObs]
    /\ ret = NoCall

----------------------------------------------------------------------------
(* Spec: the whole pipeline, with predictions to match.  Credentials are   *)
(* issued for 400 s and time passes a day at a time.                       *)

Init ==
    /\ pool = TRUE
    /\ fernet = TRUE
    /\ EmptyStore

Next ==
    \/ \E p \in Procs, a \in Athletes :
          started < MaxEvents /\ StartEvent(p, a, 1)
    \/ \E p \in Procs : CheckConsent(p)
    \/ \E p \in Procs : GetTokens(p)
    \/ \E p \in Procs, st \in RefreshStatuses :
          (st = HttpOk => issued < MaxIssued) /\ RefreshPost(p, st, 400)
    \/ \E p \in Procs : UpdateTokens(p)
    \/ \E p \in Procs, st \in FetchStatuses, act \in {RunA(1), Ride(1)} :
          FetchActivity(p, st, act)
    \/ \E p \in Procs : LogConsent(p)
    \/ \E p \in Procs : LogInsert(p)
    \/ \E p \in Procs : GetPending(p)
    \/ \E p \in Procs : RaceResultConsent(p)
    \/ \E p \in Procs : RaceResultInsert(p)
    \/ \E p \in Procs : MatchPrediction(p)
    \/ \E a \in Athletes, b \in BOOLEAN : SetConsent(a, b)
    \/ \E a \in Athletes : StoreTokens(a, 400)
    \/ \E a \in Athletes, g \in GoalDistances, t \in PredictedTimes,
          d \in {Null, 10} :
          seqs.pending_predictions < MaxPreds /\ StorePendingPrediction(a, g, t, d)
    \/ ExpireOldPredictions
    \/ ticks < MaxTicks /\ Tick(SecondsPerDay)

Spec == Init /\ [][Next]_vars

----------------------------------------------------------------------------
(* SpecToken: consent, token acquisition and fetch in detail.  No          *)
(* prediction is stored, so every invocation ends at the latest when       *)
(* get_pending_predictions returns the empty list.  Credentials are issued *)
(* for 100 to 400 s and time passes 100 s at a time.                       *)

\* successful upstream refreshes, in SpecToken
MaxRefreshes == 2

InitToken ==
    /\ pool \in BOOLEAN
    /\ fernet \in BOOLEAN
    /\ EmptyStore

NextToken ==
    \/ \E p \in Procs, a \in Athletes :
          started < MaxEvents /\ StartEvent(p, a, 1)
    \/ \E p \in Procs : CheckConsent(p)
    \/ \E p \in Procs : GetTokens(p)
    \/ \E p \in Procs, st \in RefreshStatuses, off \in {100, 400} :
          (st = HttpOk => issued < MaxRefreshes) /\ RefreshPost(p, st, off)
    \/ \E p \in Procs : UpdateTokens(p)
    \/ \E p \in Procs, st \in FetchStatuses, act \in {RunA(1), Ride(1)} :
          FetchActivity(p, st, act)
    \/ \E p \in Procs : LogConsent(p)
    \/ \E p \in Procs : LogInsert(p)
    \/ \E p \in Procs : GetPending(p)
    \/ \E a \in Athletes, b \in BOOLEAN : SetConsent(a, b)
    \/ \E a \in Athletes, off \in {100, 300, 301, 400} : StoreTokens(a, off)
    \/ ticks < MaxTicks /\ Tick(100)

SpecToken == InitToken /\ [][NextToken]_vars

----------------------------------------------------------------------------
(* SpecLog: the training log in detail.  Two activity ids, every payload   *)
(* the provider can return for them; the credential stays in its grace     *)
(* window, so no refresh happens.                                          *)

\* invocations of process_activity_event begun, in SpecLog
MaxLogEvents == 3

InitLog ==
    /\ pool = TRUE
    /\ fernet = TRUE
    /\ EmptyStore

NextLog ==
    \/ \E p \in Procs, a \in Athletes, id \in ActivityIds :
          started < MaxLogEvents /\ StartEvent(p, a, id)
    \/ \E p \in Procs : CheckConsent(p)
    \/ \E p \in Procs : GetTokens(p)
    \/ \E p \in Procs, act \in UNION {Payloads(id) : id \in ActivityIds} :
          FetchActivity(p, HttpOk, act)
    \/ \E p \in Procs : LogConsent(p)
    \/ \E p \in Procs : LogInsert(p)
    \/ \E p \in Procs : GetPending(p)
    \/ \E a \in Athletes, b \in BOOLEAN : SetConsent(a, b)
    \/ \E a \in Athletes : StoreTokens(a, 400)

SpecLog == InitLog /\ [][NextLog]_vars

----------------------------------------------------------------------------
(* SpecMatch: the matching policy in detail.  The athlete has opted in and *)
(* holds a credential inside its grace window; activities come at the      *)
(* edges of the distance tolerance and of the date window of the goals,    *)
(* and with the malformed fields the provider can send.                    *)

\* invocations of process_activity_event begun, in SpecMatch
MaxMatchEvents == 2

\* goals of 10 km and just under
MatchGoals == {9999, 10000}
\* 15 % of 10 km on either side, one metre beyond, and 11.51 km
BoundaryDistances == {8499, 8500, 11500, 11501, 11510}
\* the window of a race on day 10 is [9, 13]
BoundaryDates == {8, 9, 13, 14}

MatchPayloads(id) ==
    {Run(id, d, 10) : d \in BoundaryDistances}
    \cup {Run(id, 10000, t) : t \in BoundaryDates}
    \cup {ZeroDistance(id), BadDate(id), NullDate(id)}

InitMatch ==
    /\ pool = TRUE
    /\ fernet = TRUE
    /\ now = InitNow
    /\ data_consent = set_consent({}, 1, TRUE)
    /\ athlete_tokens = store_tokens({}, 1, AccessOf(0), RefreshOf(0), InitNow + 400)
    /\ training_log = {}
    /\ pending_predictions = {}
    /\ race_results = {}
    /\ seqs = [training_log |-> 0, pending_predictions |-> 0, race_results |-> 0]
    /\ issued = 0
    /\ started = 0
    /\ ticks = 0
    /\ ev = [p \in Procs |-> InitEv]
    /\ obs = [p \in Procs |-> InitObs]
    /\ ret = NoCall

\* the invocations of SpecMatch run one after the other, in one slot
MatchProcs == {1}

NextMatch ==
    \/ \E p \in MatchProcs, a \in Athletes :
          started < MaxMatchEvents /\ StartEvent(p, a, 1)
    \/ \E p \in MatchProcs : CheckConsent(p)
    \/ \E p \in MatchProcs : GetTokens(p)
    \/ \E p \in MatchProcs, act \in MatchPayloads(1) : FetchActivity(p, HttpOk, act)
    \/ \E p \in MatchProcs : LogConsent(p)
    \/ \E p \in MatchProcs : LogInsert(p)
    \/ \E p \in MatchProcs : GetPending(p)
    \/ \E p \in MatchProcs : RaceResultConsent(p)
    \/ \E p \in MatchProcs : RaceResultInsert(p)
    \/ \E p \in MatchProcs : MatchPrediction(p)
    \/ \E a \in Athletes, g \in MatchGoals, t \in PredictedTimes, d \in {Null, 10} :
          seqs.pending_predictions < MaxPreds /\ StorePendingPrediction(a, g, t, d)

SpecMatch == InitMatch /\ [][NextMatch]_vars

----------------------------------------------------------------------------
(* SpecGreedy: several candidate predictions for one run.  The athlete has *)
(* opted in and holds a credential inside its grace window; predictions    *)
(* are created a second apart, with or without a goal race date, and the   *)
(* invocations for the same 10 km run come one after the other.            *)

NextGreedy ==
    \/ \E p \in MatchProcs, a \in Athletes :
          started < MaxMatchEvents /\ StartEvent(p, a, 1)
    \/ \E p \in MatchProcs : CheckConsent(p)
    \/ \E p \in MatchProcs : GetTokens(p)
    \/ \E p \in MatchProcs : FetchActivity(p, HttpOk, RunA(1))
    \/ \E p \in MatchProcs : LogConsent(p)
    \/ \E p \in MatchProcs : LogInsert(p)
    \/ \E p \in MatchProcs : GetPending(p)
    \/ \E p \in MatchProcs : RaceResultConsent(p)
    \/ \E p \in MatchProcs : RaceResultInsert(p)
    \/ \E p \in MatchProcs : MatchPrediction(p)
    \/ \E a \in Athletes, g \in GoalDistances, t \in PredictedTimes, d \in {Null, 10} :
          seqs.pending_predictions < MaxPreds /\ StorePendingPrediction(a, g, t, d)
    \/ ticks < MaxTicks /\ Tick(1)

SpecGreedy == InitMatch /\ [][NextGreedy]_vars

----------------------------------------------------------------------------
(* SpecStats: the statistics of the training log.  Today is day 16; the    *)
(* opted-in athlete 1 logs 10 km runs dated on either side of the cutoffs  *)
(* of one and of two trailing weeks (days 9 and 2), and the statistics are *)
(* asked for athlete 1 and for athlete 2, who has logged nothing.          *)

StatDates == {1, 2, 8, 9}
StatWeeks == {1, 2}
StatAthletes == {1, 2}

NextStats ==
    \/ \E p \in MatchProcs, a \in Athletes, id \in ActivityIds :
          started < MaxMatchEvents /\ StartEvent(p, a, id)
    \/ \E p \in MatchProcs : CheckConsent(p)
    \/ \E p \in MatchProcs : GetTokens(p)
    \/ \E p \in MatchProcs, id \in ActivityIds, d \in StatDates :
          FetchActivity(p, HttpOk, Run(id, 10000, d))
    \/ \E p \in MatchProcs : LogConsent(p)
    \/ \E p \in MatchProcs : LogInsert(p)
    \/ \E p \in MatchProcs : GetPending(p)
    \/ \E a \in StatAthletes, w \in StatWeeks : GetTrainingLogStats(a, w)

SpecStats == InitMatch /\ [][NextStats]_vars

----------------------------------------------------------------------------
(* SpecSkip: the four skips of steps 1-4 next to a matching state that has *)
(* something in it.  One invocation at a time, for a run or a ride, while  *)
(* consent is given and withdrawn, the credential (issued for 400 s) ages  *)
(* 100 s at a time and is refreshed; one prediction is pending.            *)

\* nobody has opted in or holds a credential; athlete 1 has one pending
\* prediction of 3100 s for 10 km, without goal race date
InitSkip ==
    /\ pool = TRUE
    /\ fernet = TRUE
    /\ now = InitNow
    /\ data_consent = {}
    /\ athlete_tokens = {}
    /\ training_log = {}
    /\ pending_predictions = store_pending_prediction({}, 1, 1, 10000, 3100, Null)
    /\ race_results = {}
    /\ seqs = [training_log |-> 0, pending_predictions |-> 1, race_results |-> 0]
    /\ issued = 0
    /\ started = 0
    /\ ticks = 0
    /\ ev = [p \in Procs |-> InitEv]
    /\ obs = [p \in Procs |-> InitObs]
    /\ ret = NoCall

NextSkip ==
    \/ \E p \in MatchProcs, a \in Athletes :
          started < MaxMatchEvents /\ StartEvent(p, a, 1)
    \/ \E p \in MatchProcs : CheckConsent(p)
    \/ \E p \in MatchProcs : GetTokens(p)
    \/ \E p \in MatchProcs, st \in RefreshStatuses :
          (st = HttpOk => issued < MaxIssued) /\ RefreshPost(p, st, 400)
    \/ \E p \in MatchProcs : UpdateTokens(p)
    \/ \E p \in MatchProcs, st \in FetchStatuses, act \in {RunA(1), Ride(1)} :
          FetchActivity(p, st, act)
    \/ \E p \in MatchProcs : LogConsent(p)
    \/ \E p \in MatchProcs : LogInsert(p)
    \/ \E p \in MatchProcs : GetPending(p)
    \/ \E p \in MatchProcs : RaceResultConsent(p)
    \/ \E p \in MatchProcs : RaceResultInsert(p)
    \/ \E p \in MatchProcs : MatchPrediction(p)
    \/ \E a \in Athletes, b \in BOOLEAN : SetConsent(a, b)
    \/ \E a \in Athletes : StoreTokens(a, 400)
    \/ ticks < MaxTicks /\ Tick(100)

SpecSkip == InitSkip /\ [][NextSkip]_vars

----------------------------------------------------------------------------
(* SpecGoal: predictions whose goal distance is not positive.  The table   *)
(* accepts any REAL as goal_distance_km and store_pending_prediction       *)
(* stores what it is given; the opted-in athlete's 10 km run is processed  *)
(* against goals of 10 km, 0 km and -10 km created a second apart.         *)

AnyGoals == {-10000, 0, 10000}

NextGoal ==
    \/ \E p \in MatchProcs, a \in Athletes :
          started < MaxMatchEvents /\ StartEvent(p, a, 1)
    \/ \E p \in MatchProcs : CheckConsent(p)
    \/ \E p \in MatchProcs : GetTokens(p)
    \/ \E p \in MatchProcs : FetchActivity(p, HttpOk, RunA(1))
    \/ \E p \in MatchProcs : LogConsent(p)
    \/ \E p \in MatchProcs : LogInsert(p)
    \/ \E p \in MatchProcs : GetPending(p)
    \/ \E p \in MatchProcs : RaceResultConsent(p)
    \/ \E p \in MatchProcs : RaceResultInsert(p)
    \/ \E p \in MatchProcs : MatchPrediction(p)
    \/ \E a \in Athletes, g \in AnyGoals, t \in PredictedTimes :
          seqs.pending_predictions < MaxPreds /\ StorePendingPrediction(a, g, t, Null)
    \/ ticks < MaxTicks /\ Tick(1)

SpecGoal == InitMatch /\ [][NextGoal]_vars

----------------------------------------------------------------------------
(* SpecError: the error a match reports.  The opted-in athlete's 10 km run *)
(* comes with a moving time of 3000 s or of 0 s, against predictions of    *)
(* 3000 s and 3100 s.                                                      *)

ErrorTimes == {3000, 3100}

NextError ==
    \/ \E p \in MatchProcs, a \in Athletes :
          started < MaxMatchEvents /\ StartEvent(p, a, 1)
    \/ \E p \in MatchProcs : CheckConsent(p)
    \/ \E p \in MatchProcs : GetTokens(p)
    \/ \E p \in MatchProcs, act \in {RunA(1), ZeroTime(1)} :
          FetchActivity(p, HttpOk, act)
    \/ \E p \in MatchProcs : LogConsent(p)
    \/ \E p \in MatchProcs : LogInsert(p)
    \/ \E p \in MatchProcs : GetPending(p)
    \/ \E p \in MatchProcs : RaceResultConsent(p)
    \/ \E p \in MatchProcs : RaceResultInsert(p)
    \/ \E p \in MatchProcs : MatchPrediction(p)
    \/ \E a \in Athletes, g \in GoalDistances, t \in ErrorTimes :
          seqs.pending_predictions < MaxPreds /\ StorePendingPrediction(a, g, t, Null)

SpecError == InitMatch /\ [][NextError]_vars

----------------------------------------------------------------------------
(* SpecPending: what get_pending_predictions returns.  Predictions are     *)
(* stored for athlete 1, with a goal race on day 10 (they expire at the    *)
(* start of day 17) or without one, and for athlete 2; time passes a day   *)
(* at a time from day 16, the sweep runs, and a run of athlete 1, who has  *)
(* opted in and holds a credential good for ten days, is matched.          *)

\* invocations of process_activity_event begun, in SpecPending
MaxPendingEvents == 1

InitPending ==
    /\ pool = TRUE
    /\ fernet = TRUE
    /\ now = InitNow
    /\ data_consent = set_consent({}, 1, TRUE)
    /\ athlete_tokens = store_tokens({}, 1, AccessOf(0), RefreshOf(0),
                                     InitNow + 10 * SecondsPerDay)
    /\ training_log = {}
    /\ pending_predictions = {}
    /\ race_results = {}
    /\ seqs = [training_log |-> 0, pending_predictions |-> 0, race_results |-> 0]
    /\ issued = 0
    /\ started = 0
    /\ ticks = 0
    /\ ev = [p \in Procs |-> InitEv]
    /\ obs = [p \in Procs |-> InitObs]
    /\ ret = NoCall

NextPending ==
    \/ \E p \in MatchProcs, a \in Athletes :
          started < MaxPendingEvents /\ StartEvent(p, a, 1)
    \/ \E p \in MatchProcs : CheckConsent(p)
    \/ \E p \in MatchProcs : GetTokens(p)
    \/ \E p \in MatchProcs : FetchActivity(p, HttpOk, RunA(1))
    \/ \E p \in MatchProcs : LogConsent(p)
    \/ \E p \in MatchProcs : LogInsert(p)
    \/ \E p \in MatchProcs : GetPending(p)
    \/ \E p \in MatchProcs : RaceResultConsent(p)
    \/ \E p \in MatchProcs : RaceResultInsert(p)
    \/ \E p \in MatchProcs : MatchPrediction(p)
    \/ \E a \in Athletes, g \in GoalDistances, t \in PredictedTimes, d \in {Null, 10} :
          seqs.pending_predictions < MaxPreds /\ StorePendingPrediction(a, g, t, d)
    \/ \E g \in GoalDistances, t \in PredictedTimes :
          seqs.pending_predictions < MaxPreds /\ StorePendingPrediction(2, g, t, Null)
    \/ ExpireOldPredictions
    \/ ticks < MaxTicks /\ Tick(SecondsPerDay)
    \/ \E a \in Athletes : GetPendingPredictions(a)

SpecPending == InitPending /\ [][NextPending]_vars

----------------------------------------------------------------------------
(* SpecCred: the credential record.  Two invocations at a time for the     *)
(* opted-in athlete 1, whose credentials are issued for 100 s, inside the  *)
(* 300 s before expiry, so that every invocation refreshes; the athlete    *)
(* authorizes, and authorizes again, while they run.  The fetched activity *)
(* is a ride, which ends the invocation.                                   *)

InitCred ==
    /\ pool = TRUE
    /\ fernet = TRUE
    /\ now = InitNow
    /\ data_consent = set_consent({}, 1, TRUE)
    /\ athlete_tokens = {}
    /\ training_log = {}
    /\ pending_predictions = {}
    /\ race_results = {}
    /\ seqs = [training_log |-> 0, pending_predictions |-> 0, race_results |-> 0]
    /\ issued = 0
    /\ started = 0
    /\ ticks = 0
    /\ ev = [p \in Procs |-> InitEv]
    /\ obs = [p \in Procs |-> InitObs]
    /\ ret = NoCall

NextCred ==
    \/ \E p \in Procs, a \in Athletes :
          started < MaxEvents /\ StartEvent(p, a, 1)
    \/ \E p \in Procs : CheckConsent(p)
    \/ \E p \in Procs : GetTokens(p)
    \/ \E p \in Procs, st \in RefreshStatuses :
          (st = HttpOk => issued < MaxRefreshes) /\ RefreshPost(p, st, 100)
    \/ \E p \in Procs : UpdateTokens(p)
    \/ \E p \in Procs, st \in FetchStatuses : FetchActivity(p, st, Ride(1))
    \/ \E a \in Athletes : StoreTokens(a, 100)
    \/ \E a \in Athletes : issued < MaxRefreshes /\ StoreTokensAgain(a, 100)

SpecCred == InitCred /\ [][NextCred]_vars

----------------------------------------------------------------------------
(* SpecIso: two athletes side by side.  Both have opted in, hold a         *)
(* credential that is due for refresh and have a pending prediction for    *)
(* 10 km without goal race date; their 10 km runs (the same activity id 1  *)
(* for either) are processed by two invocations at a time.                 *)

TwoAthletes == {1, 2}

InitIso ==
    /\ pool = TRUE
    /\ fernet = TRUE
    /\ now = InitNow
    /\ data_consent = set_consent(set_consent({}, 1, TRUE), 2, TRUE)
    /\ athlete_tokens =
          store_tokens(store_tokens({}, 1, AccessOf(0), RefreshOf(0), InitNow + 100),
                       2, AccessOf(0), RefreshOf(0), InitNow + 100)
    /\ training_log = {}
    /\ pending_predictions =
          store_pending_prediction(
              store_pending_prediction({}, 1, 1, 10000, 3100, Null),
              2, 2, 10000, 3100, Null)
    /\ race_results = {}
    /\ seqs = [training_log |-> 0, pending_predictions |-> 2, race_results |-> 0]
    /\ issued = 0
    /\ started = 0
    /\ ticks = 0
    /\ ev = [p \in Procs |-> InitEv]
    /\ obs = [p \in Procs |-> InitObs]
    /\ ret = NoCall

NextIso ==
    \/ \E p \in Procs, a \in TwoAthletes :
          started < MaxEvents /\ StartEvent(p, a, 1)
    \/ \E p \in Procs : CheckConsent(p)
    \/ \E p \in Procs : GetTokens(p)
    \/ \E p \in Procs : issued < MaxRefreshes /\ RefreshPost(p, HttpOk, 400)
    \/ \E p \in Procs : UpdateTokens(p)
    \/ \E p \in Procs : FetchActivity(p, HttpOk, RunA(1))
    \/ \E p \in Procs : LogConsent(p)
    \/ \E p \in Procs : LogInsert(p)
    \/ \E p \in Procs : GetPending(p)
    \/ \E p \in Procs : RaceResultConsent(p)
    \/ \E p \in Procs : RaceResultInsert(p)
    \/ \E p \in Procs : MatchPrediction(p)

SpecIso == InitIso /\ [][NextIso]_vars

----------------------------------------------------------------------------
(* SpecDetect: detect_race_results on the activity lists check_for_race    *)
(* can fetch: up to MaxActivities activities, each a 10 km run of day 10   *)
(* or 11, tagged as a race or not, a 12 km run, a run without distance or  *)
(* a ride, in any order, against a goal of 10 km.                          *)

\* activities in the list check_for_race has fetched
MaxActivities == 3

ActivityKinds ==
    {[Run(0, 10000, d) EXCEPT !.workout_type = w] : d \in {10, 11}, w \in {0, 1}}
    \cup {Run(0, 12000, 10), ZeroDistance(0), Ride(0)}

\* the lists of up to n activities, the i-th with id i
ActivityLists(n) ==
    UNION {{[i \in 1..len |-> [kinds[i] EXCEPT !.id = i]] :
               kinds \in [1..len -> ActivityKinds]} : len \in 0..n}

InitDetect ==
    /\ pool = TRUE
    /\ fernet = TRUE
    /\ now = InitNow
    /\ data_consent = {}
    /\ athlete_tokens = {}
    /\ training_log = {}
    /\ pending_predictions = {}
    /\ race_results = {}
    /\ seqs = [training_log |-> 0, pending_predictions |-> 0, race_results |-> 0]
    /\ issued = 0
    /\ started = 0
    /\ ticks = 0
    /\ ev = [p \in Procs |-> InitEv]
    /\ obs = [p \in Procs |-> InitObs]
    /\ \E acts \in ActivityLists(MaxActivities) :
          ret = [fn |-> "athlete_activities", value |-> acts]

NextDetect ==
    \E g \in GoalDistances : CheckForRace(g)

SpecDetect == InitDetect /\ [][NextDetect]_vars

----------------------------------------------------------------------------
(* SpecErase: deletion of an athlete's data while events are processed.    *)
(* Athlete 1 has opted in, holds a credential that is due for refresh and  *)
(* has a pending prediction for 10 km; two invocations at a time process   *)
(* the athlete's 10 km run, and delete_athlete_data(1) is called once, at  *)
(* any moment.  Nobody opts in or authorizes after the deletion.           *)

InitErase ==
    /\ pool = TRUE
    /\ fernet = TRUE
    /\ now = InitNow
    /\ data_consent = set_consent({}, 1, TRUE)
    /\ athlete_tokens = store_tokens({}, 1, AccessOf(0), RefreshOf(0), InitNow + 100)
    /\ training_log = {}
    /\ pending_predictions = store_pending_prediction({}, 1, 1, 10000, 3100, Null)
    /\ race_results = {}
    /\ seqs = [training_log |-> 0, pending_predictions |-> 1, race_results |-> 0]
    /\ issued = 0
    /\ started = 0
    /\ ticks = 0
    /\ ev = [p \in Procs |-> InitEv]
    /\ obs = [p \in Procs |-> InitObs]
    /\ ret = NoCall

NextErase ==
    \/ \E p \in Procs : started < MaxEvents /\ StartEvent(p, 1, 1)
    \/ \E p \in Procs : CheckConsent(p)
    \/ \E p \in Procs : GetTokens(p)
    \/ \E p \in Procs : issued < MaxRefreshes /\ RefreshPost(p, HttpOk, 400)
    \/ \E p \in Procs : UpdateTokens(p)
    \/ \E p \in Procs : FetchActivity(p, HttpOk, RunA(1))
    \/ \E p \in Procs : LogConsent(p)
    \/ \E p \in Procs : LogInsert(p)
    \/ \E p \in Procs : GetPending(p)
    \/ \E p \in Procs : RaceResultConsent(p)
    \/ \E p \in Procs : RaceResultInsert(p)
    \/ \E p \in Procs : MatchPrediction(p)
    \/ ret = NoCall /\ DeleteAthleteData(1)

SpecErase == InitErase /\ [][NextErase]_vars

----------------------------------------------------------------------------
(* Properties *)

\* a step of invocation slot p
StepOf(p) == ev'[p] # ev[p]
\* invocation slot p has returned r
Returned(e) == e.pc = "done"
Skipped(e, reason) ==
    /\ e.pc = "done"
    /\ e.result.action = "skipped"
    /\ e.result.reason = reason

\* C1: a prediction's status only ever moves pending -> matched or
\* pending -> expired: no step changes the status of a prediction that is
\* matched or expired.  (Stated as claimed; the code violates it.)
C1_MonotoneLifecycle ==
    [][\A r \in pending_predictions : \A r2 \in pending_predictions' :
          (r2.id = r.id /\ r.status # "pending") => r2.status = r.status]_vars

\* C2: of two invocations, at most one returns action "matched" for a given
\* prediction id.  (Stated as claimed; the code violates it.)
C2_AtMostOneMatcher ==
    \A p, q \in Procs :
        (/\ p # q
         /\ Returned(ev[p]) /\ ev[p].result.action = "matched"
         /\ Returned(ev[q]) /\ ev[q].result.action = "matched")
        => ev[p].result.prediction_id # ev[q].result.prediction_id

\* C3: for one (athlete, activity id), at most one prediction is matched to
\* the activity and at most one webhook-sourced race result is written for
\* it.  (Stated as claimed; the code violates it.)
C3_NoDoubleCount ==
    \A a \in Athletes, id \in ActivityIds :
        /\ Cardinality({r \in pending_predictions :
                          /\ r.athlete_id = a
                          /\ r.status = "matched"
                          /\ r.matched_activity_id = id}) <= 1
        /\ Cardinality({r \in race_results :
                          /\ r.athlete_hash = hash_athlete_id(a)
                          /\ r.source = "webhook"
                          /\ r.origin.activity_id = id}) <= 1

\* the columns of a training_log row that the upsert's DO UPDATE SET lists
UpdatedColumns(r) ==
    [r EXCEPT !.id = Null, !.activity_date = Null, !.suffer_score = Null]

\* C4: the training log holds at most one row per (athlete hash, activity
\* id).  An upsert leaves the rows of other keys alone; for a key that has
\* a row it keeps that row (same id: updated in place) and for a new key it
\* adds one; either way the row then holds the payload's values in every
\* column the update writes.  So a second upsert of the same payload changes
\* nothing, and upserts of one payload end in the same row in either order.
C4_LogUniqueness ==
    [][/\ \A r1, r2 \in training_log' : LogConflict(r1, r2) => r1 = r2
       /\ \A r \in training_log : \E r2 \in training_log' :
             r2.id = r.id /\ LogConflict(r2, r)
       /\ \A p \in Procs :
             (ev[p].pc = "log_insert" /\ StepOf(p)) =>
                LET v == ev[p].log_values IN
                /\ \A r \in training_log : ~LogConflict(r, v) => r \in training_log'
                /\ \E r2 \in training_log' :
                      /\ LogConflict(r2, v)
                      /\ UpdatedColumns(r2) = UpdatedColumns(LogRow(v, r2.id))
                      /\ \A r \in training_log : LogConflict(r, v) =>
                            /\ r2.id = r.id
                            /\ r2.activity_date = r.activity_date
                            /\ r2.suffer_score = r.suffer_score
                /\ \A r \in training_log :
                      (LogConflict(r, v) /\ UpdatedColumns(r) = UpdatedColumns(LogRow(v, r.id)))
                         => training_log' = training_log]_vars

\* C4 witness: two invocations for one activity have both upserted it, and
\* the log holds one row for it.
C4_Witness ==
    \E p, q \in Procs :
        /\ p # q
        /\ Returned(ev[p]) /\ Returned(ev[q])
        /\ ev[p].activity_id = ev[q].activity_id
        /\ obs[p].log_upserts = 1 /\ obs[q].log_upserts = 1
        /\ Cardinality({r \in training_log :
                          r.strava_activity_id = ev[p].activity_id}) = 1

\* C5: after an upsert, the row of the key holds the call's value for every
\* field other than the key: activity date, distance, moving and elapsed
\* time, elevation gain, average and max heart rate, workout type, pace and
\* is-race flag.  (Stated as claimed; the code violates it.)
C5_UpsertOverwritesAll ==
    [][\A p \in Procs :
          (ev[p].pc = "log_insert" /\ StepOf(p)) =>
             LET v == ev[p].log_values IN
             \E r \in training_log' :
                /\ LogConflict(r, v)
                /\ r.activity_date = v.activity_date
                /\ r.distance_km = v.distance_km
                /\ r.moving_time_seconds = v.moving_time_seconds
                /\ r.elapsed_time_seconds = v.elapsed_time_seconds
                /\ r.elevation_gain_m = v.elevation_gain_m
                /\ r.average_heartrate = v.average_heartrate
                /\ r.max_heartrate = v.max_heartrate
                /\ r.workout_type = v.workout_type
                /\ r.pace_per_km_sec = v.pace_per_km_sec
                /\ r.is_race = v.is_race]_vars

\* C6: when the consent gate reads "not opted in", the invocation returns
\* skipped / "not opted in" at once, having made no call to the upstream
\* refresh endpoint and no call to the activity fetcher.
C6_ConsentShortCircuit ==
    [][\A p \in Procs :
          (/\ ev[p].pc = "consent" /\ StepOf(p)
           /\ ~get_consent(ev[p].athlete_id))
          => /\ Skipped(ev'[p], "not opted in")
             /\ obs'[p].refresh_calls = 0
             /\ obs'[p].fetch_calls = 0]_vars

C6_Witness ==
    \E p \in Procs :
        /\ Skipped(ev[p], "not opted in")
        /\ obs[p].gate = "no"
        /\ \E r \in athlete_tokens : r.athlete_id = ev[p].athlete_id

\* C7: with a credential stored, refresh_athlete_token returns the stored
\* access token without an upstream call exactly when the stored expiry is
\* strictly greater than now + 300 s; otherwise it goes on to the upstream
\* refresh, which it calls exactly once.
C7_GraceWindow ==
    [][\A p \in Procs :
          LET tokens == get_tokens(ev[p].athlete_id) IN
          /\ (ev[p].pc = "get_tokens" /\ StepOf(p) /\ tokens.found) =>
                IF tokens.expires_at > now + 300
                THEN /\ ev'[p].pc = "fetch"
                     /\ ev'[p].access_token = tokens.access_token
                     /\ obs'[p].refresh_calls = 0
                ELSE /\ ev'[p].pc = "refresh_post"
                     /\ obs'[p].refresh_calls = 0
          /\ (ev[p].pc = "refresh_post" /\ StepOf(p)) =>
                obs'[p].refresh_calls = 1
          /\ (ev[p].pc \notin {"idle", "done", "raised", "refresh_post"}
                /\ StepOf(p)) =>
                obs'[p].refresh_calls = obs[p].refresh_calls]_vars

\* C7 witness: one invocation has taken the stored token, and another one,
\* reading it when it expires in exactly 300 s, goes on to refresh it.
C7_Witness ==
    \E p, q \in Procs :
        /\ ev[p].pc = "fetch" /\ obs[p].token_path = "grace"
        /\ ev[q].pc = "refresh_post"
        /\ ev[q].tokens.expires_at = now + 300

\* C8: an invocation writes the stored credential at most once, and only
\* after a successful upstream refresh: every other step of the invocation
\* (a failed refresh, the grace-window return) leaves the credential table
\* as it is.
C8_CredentialWrites ==
    [][\A p \in Procs :
          /\ (StepOf(p) /\ athlete_tokens' # athlete_tokens) =>
                /\ ev[p].pc = "update_tokens"
                /\ obs[p].refresh_status = HttpOk
                /\ obs[p].cred_writes = 0
          /\ obs'[p].cred_writes <= 1]_vars

C8_Witness ==
    \E p, q \in Procs :
        /\ obs[p].cred_writes = 1 /\ obs[p].token_path = "refreshed"
        /\ obs[q].token_path = "refresh_failed" /\ obs[q].cred_writes = 0

\* C9: past the consent gate, when no credential is stored or the upstream
\* refresh answers non-success, the invocation returns skipped / "token
\* refresh failed" and has not called the activity fetcher.
C9_TokenFailure ==
    [][\A p \in Procs :
          (\/ /\ ev[p].pc = "get_tokens" /\ StepOf(p)
              /\ ~ \E r \in athlete_tokens : r.athlete_id = ev[p].athlete_id
           \/ /\ ev[p].pc = "refresh_post" /\ StepOf(p)
              /\ obs'[p].refresh_status # HttpOk)
          => /\ Skipped(ev'[p], "token refresh failed")
             /\ obs'[p].fetch_calls = 0]_vars

C9_Witness ==
    \E p, q \in Procs :
        /\ obs[p].token_path = "no_credential"
        /\ Skipped(ev[p], "token refresh failed")
        /\ obs[q].token_path = "refresh_failed"
        /\ Skipped(ev[q], "token refresh failed")

\* C10: when the activity-detail request answers non-success, the invocation
\* returns skipped / "activity fetch failed", and that request was its only
\* one.
C10_FetchFailure ==
    [][\A p \in Procs :
          /\ (ev[p].pc = "fetch" /\ obs'[p].fetch_calls # obs[p].fetch_calls
                /\ obs'[p].fetch_status # HttpOk)
             => /\ Skipped(ev'[p], "activity fetch failed")
                /\ obs'[p].fetch_calls = 1
          /\ obs'[p].fetch_calls <= 1]_vars

C10_Witness ==
    \E p \in Procs :
        /\ Skipped(ev[p], "activity fetch failed")
        /\ obs[p].fetch_calls = 1
        /\ obs[p].token_path \in {"grace", "refreshed"}

\* C11: when the activity fetched is of any type other than "Run", the
\* invocation returns skipped / "not a run" at that step, having made no
\* call to log_activity and no read of the pending predictions.
C11_TypeFilter ==
    [][\A p \in Procs :
          (/\ ev[p].pc = "fetch" /\ StepOf(p)
           /\ obs'[p].fetch_status = HttpOk
           /\ obs'[p].fetched.type # "Run")
          => /\ Skipped(ev'[p], "not a run")
             /\ obs'[p].log_calls = 0
             /\ obs'[p].log_upserts = 0
             /\ obs'[p].pending_reads = 0]_vars

C11_Witness ==
    \E p \in Procs :
        /\ Skipped(ev[p], "not a run")
        /\ obs[p].fetched.type = "Ride"
        /\ obs[p].log_calls = 0 /\ obs[p].pending_reads = 0

\* C12: a run whose training-log write was skipped or failed (log_activity
\* returned no id) still goes on to read the pending predictions, and a
\* pending prediction whose policy the activity satisfies is then matched
\* although nothing was logged.  (Stated as claimed; the code violates it.)
C12_LogFailureDoesNotBlock ==
    [][\A p \in Procs :
          /\ (/\ ev[p].pc = "log_consent" /\ StepOf(p)
              /\ ~log_activity_values(ev[p].athlete_id, ev[p].activity).ok)
             => ev'[p].pc = "get_pending"
          /\ (/\ ev[p].pc = "get_pending" /\ StepOf(p)
              /\ ~ev[p].result.logged
              /\ \E r \in PendingRows(ev[p].athlete_id) :
                    /\ r.goal_distance_km > 0
                    /\ r.goal_race_date = Null
                    /\ Abs(ev[p].activity.distance - r.goal_distance_km) * 100
                          <= r.distance_tolerance * r.goal_distance_km
              /\ \A r \in PendingRows(ev[p].athlete_id) : r.goal_distance_km > 0)
             => ev'[p].pc = "rr_consent"]_vars

\* the claimed distance policy: |activity - goal| / goal <= tolerance
WithinTolerance(dist, r) ==
    Abs(dist - r.goal_distance_km) * 100 <= r.distance_tolerance * r.goal_distance_km

\* the claimed date policy: goal date - 1 <= activity date <= goal date + window
WithinWindow(activity_date, r) ==
    /\ r.goal_race_date - 1 <= activity_date
    /\ activity_date <= r.goal_race_date + r.match_window_days

\* C13: a pending prediction passes the distance filter exactly when
\* |activity distance - goal distance| / goal distance <= its tolerance:
\* with only dateless predictions of positive goal pending, the scan ends
\* in a match exactly when one of them is within tolerance, and the
\* prediction matched is within tolerance.
C13_ToleranceBoundary ==
    [][\A p \in Procs :
          LET rows == PendingRows(ev[p].athlete_id)
              dist == ev[p].activity.distance
          IN  (/\ ev[p].pc = "get_pending" /\ StepOf(p)
               /\ \A r \in rows : r.goal_race_date = Null /\ r.goal_distance_km > 0)
              => /\ (ev'[p].pc = "rr_consent")
                      <=> (\E r \in rows : WithinTolerance(dist, r))
                 /\ ev'[p].pc = "rr_consent" => WithinTolerance(dist, ev'[p].pred)]_vars

\* C13 witness: a run of 11.5 km was matched to a goal of 10 km (a deviation
\* of exactly 15 %) and its race result written; then a run of 11.501 km
\* read a dateless pending prediction of 10 km and matched nothing.
C13_Witness ==
    \E p \in Procs :
        /\ \E row \in race_results : \E r \in pending_predictions :
              /\ row.goal_distance_km = 11500
              /\ r.id = row.origin.prediction_id
              /\ r.goal_distance_km = 10000 /\ r.status = "matched"
        /\ Returned(ev[p]) /\ ev[p].result.action = "logged"
        /\ obs[p].fetched.distance = 11501 /\ obs[p].pending_seen = 1
        /\ \E r \in PendingRows(1) : r.goal_distance_km = 10000 /\ r.goal_race_date = Null

\* C14: a pending prediction with a goal race date passes the date filter
\* exactly when goal date - 1 <= activity date <= goal date + window, both
\* ends included: with only dated predictions within tolerance pending, the
\* scan ends in a match exactly when the activity's date is in the window
\* of one of them, and it is in the window of the prediction matched.
C14_DateWindow ==
    [][\A p \in Procs :
          LET rows == PendingRows(ev[p].athlete_id)
              dist == ev[p].activity.distance
              activity_date == ev[p].activity.start_date
          IN  (/\ ev[p].pc = "get_pending" /\ StepOf(p)
               /\ \A r \in rows : /\ r.goal_race_date # Null
                                  /\ r.goal_distance_km > 0
                                  /\ WithinTolerance(dist, r))
              => /\ (ev'[p].pc = "rr_consent")
                      <=> (\E r \in rows : WithinWindow(activity_date, r))
                 /\ ev'[p].pc = "rr_consent"
                      => WithinWindow(activity_date, ev'[p].pred)]_vars

\* C14 witness: with a race on day 10 and a window of 3 days, a run on day
\* 13 was matched and its race result written; then a run on day 14 read a
\* pending prediction for a race on day 10 and matched nothing.
C14_Witness ==
    \E p \in Procs :
        /\ \E row \in race_results : \E r \in pending_predictions :
              /\ row.goal_date = 13
              /\ r.id = row.origin.prediction_id
              /\ r.goal_race_date = 10 /\ r.match_window_days = 3
              /\ r.status = "matched"
        /\ Returned(ev[p]) /\ ev[p].result.action = "logged"
        /\ obs[p].fetched.start_date = 14 /\ obs[p].pending_seen = 1
        /\ \E r \in PendingRows(1) : r.goal_distance_km = 10000 /\ r.goal_race_date = 10

\* the claimed policy as a whole: within tolerance, and within the window
\* when the prediction has a goal race date
Candidate(activity, r) ==
    /\ WithinTolerance(activity.distance, r)
    /\ r.goal_race_date # Null => WithinWindow(activity.start_date, r)

\* C15: when several pending predictions are candidates for the activity, an
\* invocation selects one that no other candidate was created after, writes
\* one race result, for that prediction, marks that prediction and no other
\* row, and returns: it makes at most one race-result write and one
\* match_prediction call.
C15_GreedyFirstMatch ==
    [][\A p \in Procs :
          /\ (ev[p].pc = "get_pending" /\ ev'[p].pc = "rr_consent") =>
                /\ ev'[p].pred \in PendingRows(ev[p].athlete_id)
                /\ Candidate(ev[p].activity, ev'[p].pred)
                /\ \A r \in PendingRows(ev[p].athlete_id) :
                      Candidate(ev[p].activity, r)
                         => r.created_at <= ev'[p].pred.created_at
          /\ (ev[p].pc = "rr_insert" /\ StepOf(p)) =>
                \E row \in race_results' :
                   /\ race_results' = race_results \cup {row}
                   /\ row \notin race_results
                   /\ row.origin.prediction_id = ev[p].pred.id
          /\ (ev[p].pc = "match" /\ StepOf(p)) =>
                /\ \A r \in pending_predictions :
                      r.id # ev[p].pred.id => r \in pending_predictions'
                /\ Returned(ev'[p])
                /\ ev'[p].result.prediction_id = ev[p].pred.id
          /\ obs'[p].rr_writes <= 1
          /\ obs'[p].match_calls <= 1]_vars

\* C15 witness: an invocation has matched the newer of two candidates and
\* returned; the older one is still pending.
C15_Witness ==
    \E p \in Procs : \E r1, r2 \in pending_predictions :
        /\ Returned(ev[p]) /\ ev[p].result.action = "matched"
        /\ ev[p].result.prediction_id = r1.id
        /\ r1.status = "matched"
        /\ r2 \in PendingRows(ev[p].athlete_id)
        /\ r2.created_at < r1.created_at
        /\ Candidate(obs[p].fetched, r1) /\ Candidate(obs[p].fetched, r2)
        /\ obs[p].rr_writes = 1 /\ obs[p].match_calls = 1

\* C16: when an invocation returns "matched" for prediction P and activity
\* A, it has written exactly one race result, tagged "webhook", that carries
\* P's reference performance and predicted time and A's distance, moving
\* time, date and elevation; and P is stored as matched, with
\* matched_activity_id = A and matched_at set.  (Stated as claimed; the code
\* violates it.)
C16_MatchCommit ==
    [][\A p \in Procs :
          (ev[p].pc = "match" /\ StepOf(p)) =>
             LET e == ev[p] IN
             /\ Returned(ev'[p]) /\ ev'[p].result.action = "matched"
             /\ ev'[p].result.prediction_id = e.pred.id
             /\ obs'[p].rr_writes = 1
             /\ \E row \in race_results' :
                   /\ row.id = ev'[p].result.race_result_id
                   /\ row.origin = [proc |-> p, prediction_id |-> e.pred.id,
                                    activity_id |-> e.activity_id]
                   /\ row.source = "webhook"
                   /\ row.ref_distance_km = e.pred.ref_distance_km
                   /\ row.ref_time_seconds = e.pred.ref_time_seconds
                   /\ row.ref_date = e.pred.ref_date
                   /\ row.predicted_time_seconds = e.pred.predicted_time_seconds
                   /\ row.goal_distance_km = e.activity.distance
                   /\ row.goal_time_seconds = e.activity.moving_time
                   /\ row.goal_date = e.activity.start_date
                   /\ row.goal_elevation_gain_ft
                         = (e.activity.total_elevation_gain * 3281) \div 1000
             /\ \E r \in pending_predictions' :
                   /\ r.id = e.pred.id
                   /\ r.status = "matched"
                   /\ r.matched_activity_id = e.activity_id
                   /\ r.matched_at # Null]_vars

\* C17: the outcome returned is Skipped with a non-empty reason, Logged or
\* Matched; and a run that passed the type filter and matched no prediction
\* returns Logged.  (Stated as claimed; the code violates it.)
C17_OutcomeWhenNothingMatches ==
    \A p \in Procs :
        Returned(ev[p]) =>
           /\ \/ ev[p].result.action = "skipped" /\ ev[p].result.reason # ""
              \/ ev[p].result.action = "logged"
              \/ ev[p].result.action = "matched"
           /\ (obs[p].log_calls = 1 /\ ev[p].result.action # "matched")
                 => ev[p].result.action = "logged"

\* C18: a prediction whose expiry time has passed is never transitioned to
\* matched: every step that sets a prediction to matched finds its
\* expires_at later than the current time, whether or not the sweep has
\* run.  (Stated as claimed; the code violates it.)
C18_ExpiredNeverMatched ==
    [][\A r \in pending_predictions : \A r2 \in pending_predictions' :
          (r2.id = r.id /\ r.status # "matched" /\ r2.status = "matched")
             => r.expires_at > now]_vars

\* C19: for every fetched payload and every set of pending predictions, the
\* invocation ends by returning an outcome: no exception ever leaves
\* process_activity_event.  (Stated as claimed; the code violates it.)
C19_NeverRaises ==
    \A p \in Procs : ev[p].pc # "raised"

\* the keys of the dict that process_activity_event returns
OutcomeFields ==
    {"athlete_id", "activity_id", "action", "logged", "reason",
     "prediction_id", "race_result_id", "goal_distance_km",
     "predicted_seconds", "actual_seconds", "error_seconds", "is_race",
     "race_name"}

\* what an invocation saw and did, its token values and refresh path aside
SameButTokens(p, q) ==
    /\ ev[p].athlete_id = ev[q].athlete_id
    /\ ev[p].activity_id = ev[q].activity_id
    /\ obs[p].gate = obs[q].gate
    /\ obs[p].fetch_calls = 1 /\ obs[q].fetch_calls = 1
    /\ obs[p].fetch_status = obs[q].fetch_status
    /\ obs[p].fetched = obs[q].fetched
    /\ obs[p].log_calls = obs[q].log_calls
    /\ obs[p].log_upserts = obs[q].log_upserts
    /\ obs[p].pending_reads = obs[q].pending_reads
    /\ obs[p].pending_seen = obs[q].pending_seen
    /\ obs[p].rr_writes = obs[q].rr_writes
    /\ obs[p].match_calls = obs[q].match_calls

Rejected(activity) ==
    activity.distance <= 0 \/ ~ParseDate(activity.start_date).ok

\* C21: log_activity called with an activity whose distance is non-positive
\* or whose start date cannot be parsed returns None: the call does not go
\* on to the INSERT and yields no log id, the result it leaves is not
\* "logged", and the training log is unchanged by the call and by the rest
\* of the invocation.
C21_UpsertRejection ==
    [][\A p \in Procs :
          /\ (ev[p].pc = "log_consent" /\ StepOf(p) /\ Rejected(ev[p].activity)) =>
                /\ ~log_activity_values(ev[p].athlete_id, ev[p].activity).ok
                /\ ev'[p].pc # "log_insert"
                /\ ev'[p].log_id = Null
                /\ training_log' = training_log
                /\ Returned(ev'[p]) => ~ev'[p].result.logged
          /\ (obs[p].log_calls = 1 /\ obs[p].fetched.type = "Run"
                 /\ Rejected(obs[p].fetched) /\ StepOf(p)
                 /\ ev'[p].athlete_id = ev[p].athlete_id
                 /\ ev[p].pc \notin {"done", "raised"}) =>
                training_log' = training_log]_vars

\* C21 witness: an invocation whose run had no distance, and one whose run
\* had an unparseable date, have returned after their log_activity call,
\* with a row already in the training log.
C21_Witness ==
    \E p, q \in Procs :
        /\ Returned(ev[p]) /\ Returned(ev[q])
        /\ obs[p].log_calls = 1 /\ obs[p].fetched.type = "Run"
        /\ obs[p].fetched.distance <= 0
        /\ obs[q].log_calls = 1 /\ obs[q].fetched.type = "Run"
        /\ ~ParseDate(obs[q].fetched.start_date).ok
        /\ training_log # {}

\* C22: get_training_log_stats for an athlete with no training-log entry
\* dated on or after today - weeks returns the empty result and does not
\* raise; when it reports statistics, they count exactly the athlete's
\* entries dated on or after the cutoff, and none dated before it.
C22_EmptyHistoryStats ==
    [][(ret' # ret /\ ret'.fn = "get_training_log_stats") =>
          LET qualifying == {r \in training_log :
                               /\ r.athlete_hash = ret'.athlete_hash
                               /\ r.activity_date >= Today - 7 * ret'.weeks}
          IN  /\ qualifying = {} => ret'.value = EmptyStats
              /\ qualifying # {} =>
                    /\ ret'.value.kind = "stats"
                    /\ ret'.value.total_runs = Cardinality(qualifying)
                    /\ ret'.value.total_miles = 10000 * Cardinality(qualifying)
              /\ training_log' = training_log]_vars

\* C22 witness: the statistics of one trailing week were asked for an
\* athlete whose only entries are older than the cutoff, and came back
\* empty.
C22_Witness ==
    /\ ret.fn = "get_training_log_stats"
    /\ ret.weeks = 1
    /\ ret.value = EmptyStats
    /\ \E r \in training_log :
          r.athlete_hash = ret.athlete_hash /\ r.activity_date = Today - 7 * ret.weeks - 1
    /\ \A r \in training_log :
          r.athlete_hash = ret.athlete_hash => r.activity_date < Today - 7 * ret.weeks

\* the positions of process_activity_event before its step 5
StepsOneToFour == {"consent", "get_tokens", "refresh_post", "update_tokens", "fetch"}

\* the reason of the first step that failed, in the order consent, token,
\* fetch, type, from what the invocation has read; "" if none failed
FirstFailure(o) ==
    IF o.gate = "no" THEN "not opted in"
    ELSE IF o.token_path \in {"no_credential", "refresh_failed"} THEN "token refresh failed"
    ELSE IF o.fetch_calls > 0 /\ o.fetch_status # HttpOk THEN "activity fetch failed"
    ELSE IF o.fetch_calls > 0 /\ o.fetched.type # "Run" THEN "not a run"
    ELSE ""

\* C23: an invocation that returns skipped with reason 'not opted in',
\* 'token refresh failed', 'activity fetch failed' or 'not a run' has
\* written nothing to the training log, the race results or the
\* predictions: it returns from steps 1-4, none of its steps there changes
\* these tables, and it has called neither log_activity nor
\* store_race_result nor match_prediction.  The reason is that of the first
\* failing step in the order consent, token, fetch, type, and a failing
\* step ends the invocation with its reason.
C23_SkipsWriteNothing ==
    [][\A p \in Procs :
          /\ (StepOf(p) /\ ev[p].pc \in StepsOneToFour) =>
                /\ training_log' = training_log
                /\ race_results' = race_results
                /\ pending_predictions' = pending_predictions
          /\ (StepOf(p) /\ Returned(ev'[p])
                 /\ ev'[p].result.action = "skipped"
                 /\ ev'[p].result.reason \in {"not opted in", "token refresh failed",
                                              "activity fetch failed", "not a run"}) =>
                /\ ev[p].pc \in StepsOneToFour
                /\ obs'[p].log_calls = 0 /\ obs'[p].log_upserts = 0
                /\ obs'[p].pending_reads = 0
                /\ obs'[p].rr_writes = 0 /\ obs'[p].match_calls = 0
                /\ ~ev'[p].result.logged
                /\ ev'[p].result.reason = FirstFailure(obs'[p])
          /\ (StepOf(p) /\ ev[p].pc \in StepsOneToFour
                 /\ FirstFailure(obs'[p]) # "") =>
                /\ Skipped(ev'[p], FirstFailure(obs'[p]))
                /\ obs'[p].gate = "no" =>
                      obs'[p].token_path = "none" /\ obs'[p].fetch_calls = 0
                /\ obs'[p].token_path \in {"no_credential", "refresh_failed"} =>
                      obs'[p].fetch_calls = 0]_vars

\* C23 witness: after an earlier invocation matched a prediction, an
\* invocation has refreshed the credential, fetched a ride and returned
\* skipped 'not a run'.
C23_Witness ==
    \E p \in Procs :
        /\ Skipped(ev[p], "not a run")
        /\ obs[p].cred_writes = 1
        /\ training_log # {}
        /\ race_results # {}
        /\ \E r \in pending_predictions : r.status = "matched"

\* C24: a pending prediction whose goal distance is zero or negative is
\* never matched, and does not stop the scan: the prediction an invocation
\* selects has a positive goal distance, and when a pending prediction with
\* a positive goal is a candidate for the activity the invocation finds a
\* match.  (Stated as claimed; the code violates it.)
C24_NonPositiveGoalSkipped ==
    [][\A p \in Procs :
          (ev[p].pc = "get_pending" /\ StepOf(p)) =>
             /\ ev'[p].pc = "rr_consent" => ev'[p].pred.goal_distance_km > 0
             /\ (\E r \in PendingRows(ev[p].athlete_id) :
                    r.goal_distance_km > 0 /\ Candidate(ev[p].activity, r))
                  => ev'[p].pc = "rr_consent"]_vars

\* C25: in every matched outcome error_seconds = predicted_seconds -
\* actual_seconds with actual_seconds the activity's moving time, and the
\* race result written for the match records the same error in seconds
\* together with its percentage of the actual time.  (Stated as claimed;
\* the code violates it.)
C25_ReportedError ==
    \A p \in Procs :
        (Returned(ev[p]) /\ ev[p].result.action = "matched") =>
           LET res == ev[p].result IN
           /\ res.actual_seconds = obs[p].fetched.moving_time
           /\ res.error_seconds = res.predicted_seconds - res.actual_seconds
           /\ \A rr \in race_results :
                 rr.id = res.race_result_id =>
                    /\ rr.prediction_error_seconds = res.error_seconds
                    /\ rr.prediction_error_pct =
                          [num |-> res.error_seconds * 100, den |-> res.actual_seconds]

\* C26: get_pending_predictions(athlete) returns exactly the predictions of
\* that athlete whose status is 'pending' and whose expiry is strictly
\* later than now, each once, ordered by creation time descending; it
\* returns no matched, expired or past-expiry prediction and none of
\* another athlete, and it changes nothing.
C26_GetPending ==
    [][(ret' # ret /\ ret'.fn = "get_pending_predictions") =>
          LET s == ret'.value
              a == ret'.athlete_id
          IN  /\ {s[i] : i \in 1..Len(s)} =
                    {r \in pending_predictions :
                        r.athlete_id = a /\ r.status = "pending" /\ r.expires_at > now}
              /\ \A i, j \in 1..Len(s) :
                    i < j => s[i] # s[j] /\ s[i].created_at >= s[j].created_at
              /\ \A i \in 1..Len(s) :
                    /\ s[i].status \notin {"matched", "expired"}
                    /\ ~ (s[i].expires_at <= now)
                    /\ s[i].athlete_id = a
              /\ pending_predictions' = pending_predictions]_vars

\* C26, the order: a call returned two predictions of the athlete, the later
\* created first.
C26_WitnessOrder ==
    /\ ret.fn = "get_pending_predictions"
    /\ Len(ret.value) = 2
    /\ ret.value[1].created_at > ret.value[2].created_at

\* C26 witness: a call returned nothing at the instant the athlete's only
\* pending prediction expires, with a prediction of the other athlete
\* still pending and unexpired.
C26_Witness ==
    /\ ret.fn = "get_pending_predictions"
    /\ ret.value = <<>>
    /\ \E r \in pending_predictions :
          r.athlete_id = ret.athlete_id /\ r.status = "pending" /\ r.expires_at = now
    /\ \E r \in pending_predictions :
          r.athlete_id # ret.athlete_id /\ r.status = "pending" /\ r.expires_at > now

\* C27: expire_old_predictions sets every prediction that is pending and
\* past its expiry to 'expired', leaving its other fields as they were,
\* and changes no other prediction (pending ones not past their expiry,
\* matched and expired ones) and no other table; run again on its own
\* result at the same instant it changes nothing.
C27_SweepIdempotent ==
    [][ExpireOldPredictions =>
          /\ \A r \in pending_predictions :
                IF r.status = "pending" /\ r.expires_at < now
                THEN /\ [r EXCEPT !.status = "expired"] \in pending_predictions'
                     /\ r \notin pending_predictions'
                ELSE r \in pending_predictions'
          /\ Cardinality(pending_predictions') = Cardinality(pending_predictions)
          /\ expire_old_predictions(pending_predictions') = pending_predictions'
          /\ \A r \in pending_predictions' : ~ (r.status = "pending" /\ r.expires_at < now)
          /\ UNCHANGED <<training_log, race_results, data_consent, athlete_tokens>>]_vars

\* C27 witness: the sweep has expired a prediction and left alone a matched
\* prediction that is past its expiry too.
C27_Witness ==
    /\ \E r \in pending_predictions : r.status = "expired" /\ r.expires_at < now
    /\ \E r \in pending_predictions : r.status = "matched" /\ r.expires_at < now

\* C28: when expire_old_predictions and match_prediction meet on one
\* prediction, the prediction makes one status transition at most: the
\* sweep never changes a prediction that is matched, and match_prediction
\* never changes the status of a prediction the sweep has expired.
\* (Stated as claimed; the code violates it.)
C28_SweepVersusMatch ==
    [][/\ ExpireOldPredictions =>
             \A r \in pending_predictions :
                r.status = "matched" => r \in pending_predictions'
       /\ \A p \in Procs :
             MatchPrediction(p) =>
                \A r \in pending_predictions : \A r2 \in pending_predictions' :
                   (r2.id = r.id /\ r.status = "expired") => r2.status = "expired"]_vars

\* C29: store_pending_prediction adds one record, with status 'pending',
\* distance tolerance 0.15 and match window 3 days, whose expiry is the goal
\* race date plus 7 days when a goal race date is given and the creation
\* time plus 365 days otherwise; it changes no other record.  No operation
\* ever changes a record's expiry (or removes the record).
C29_Creation ==
    [][/\ seqs'.pending_predictions # seqs.pending_predictions =>
             \E r \in pending_predictions' :
                /\ pending_predictions' = pending_predictions \cup {r}
                /\ r \notin pending_predictions
                /\ r.id = seqs'.pending_predictions
                /\ r.status = "pending"
                /\ r.distance_tolerance = 15
                /\ r.match_window_days = 3
                /\ r.created_at = now
                /\ r.matched_at = Null /\ r.matched_activity_id = Null
                /\ r.expires_at = IF r.goal_race_date # Null
                                  THEN (r.goal_race_date + 7) * SecondsPerDay
                                  ELSE r.created_at + 365 * SecondsPerDay
       /\ \A r \in pending_predictions : \E r2 \in pending_predictions' :
             r2.id = r.id /\ r2.expires_at = r.expires_at]_vars

\* C29 witness: a prediction with a goal race on day 10 expires at the
\* start of day 17 and one without goal race date 365 days after it was
\* created, after the first was matched and two days have passed.
C29_Witness ==
    /\ \E r \in pending_predictions :
          /\ r.goal_race_date = 10 /\ r.status = "matched"
          /\ r.expires_at = 17 * SecondsPerDay
    /\ \E r \in pending_predictions :
          /\ r.goal_race_date = Null /\ r.created_at < now
          /\ r.expires_at = r.created_at + 365 * SecondsPerDay
    /\ now = InitNow + 2 * SecondsPerDay

\* C30: a pending prediction without goal race date is matched on distance
\* alone.  When an invocation for a run with a parseable date reads a
\* pending prediction without goal race date whose tolerance the run's
\* distance is within, it finds a match, whatever the activity date: that
\* prediction, or a candidate that comes before it in the list; that
\* prediction if it is the only one pending.
C30_NoGoalDate ==
    [][\A p \in Procs :
          (ev[p].pc = "get_pending" /\ StepOf(p)) =>
             \A r \in PendingRows(ev[p].athlete_id) :
                (r.goal_race_date = Null /\ WithinTolerance(ev[p].activity.distance, r)) =>
                   /\ ev'[p].pc = "rr_consent"
                   /\ \/ ev'[p].pred = r
                      \/ /\ ev'[p].pred \in PendingRows(ev[p].athlete_id)
                         /\ ev'[p].pred.created_at >= r.created_at
                         /\ Candidate(ev[p].activity, ev'[p].pred)
                   /\ PendingRows(ev[p].athlete_id) = {r} => ev'[p].pred = r]_vars

\* C30 witness: a 10 km run of day 14 was matched to a 10 km prediction
\* without goal race date, the only one pending.
C30_Witness ==
    \E p \in Procs :
        /\ Returned(ev[p]) /\ ev[p].result.action = "matched"
        /\ obs[p].fetched.start_date = 14
        /\ obs[p].pending_seen = 1
        /\ \E r \in pending_predictions :
              /\ r.id = ev[p].result.prediction_id
              /\ r.goal_race_date = Null
              /\ r.status = "matched"

\* C31: after any sequence or interleaving of store_tokens and
\* update_tokens calls and refreshes there is at most one stored credential
\* record per athlete; the credential write of a successful refresh leaves
\* the athlete's record holding the access token, the refresh token and
\* the expiry of that refresh's response, all three together.
C31_CredentialUniqueness ==
    [][/\ \A r1, r2 \in athlete_tokens' : r1.athlete_id = r2.athlete_id => r1 = r2
       /\ \A p \in Procs :
             UpdateTokens(p) =>
                \E r \in athlete_tokens' :
                   /\ r.athlete_id = ev[p].athlete_id
                   /\ decrypt_token(r.encrypted_access_token) = ev[p].data.access_token
                   /\ decrypt_token(r.encrypted_refresh_token) = ev[p].data.refresh_token
                   /\ r.expires_at = ev[p].data.expires_at
                   /\ \E k \in 1..issued :
                         /\ ev[p].data.access_token = AccessOf(k)
                         /\ ev[p].data.refresh_token = RefreshOf(k)]_vars

\* C31 witness: after an authorization, a second authorization and a
\* refresh whose credential write came last, one record is stored and
\* holds the pair of one grant.
C31_Witness ==
    /\ Cardinality(athlete_tokens) = 1
    /\ issued = 2
    /\ \E p \in Procs : obs[p].cred_writes = 1 /\ Returned(ev[p])
    /\ \E r \in athlete_tokens : \E k \in 1..2 :
          /\ decrypt_token(r.encrypted_access_token) = AccessOf(k)
          /\ decrypt_token(r.encrypted_refresh_token) = RefreshOf(k)

\* the rows of a table that belong to athlete b
RowsOf(table, b) == {r \in table : r.athlete_hash = hash_athlete_id(b)}

\* C32: a step of a process_activity_event invocation for athlete A leaves
\* the credential, the training-log rows, the race results and the
\* predictions of every other athlete B as they were, under any
\* interleaving with invocations for B; and the prediction an invocation
\* for A selects and marks is one of A's.
C32_AthleteIsolation ==
    [][\A p \in Procs :
          StepOf(p) =>
             /\ \A b \in TwoAthletes \ {ev'[p].athlete_id} :
                   /\ RowsOf(athlete_tokens', b) = RowsOf(athlete_tokens, b)
                   /\ RowsOf(training_log', b) = RowsOf(training_log, b)
                   /\ RowsOf(race_results', b) = RowsOf(race_results, b)
                   /\ RowsOf(pending_predictions', b) = RowsOf(pending_predictions, b)
             /\ ev'[p].pred # NoPred => ev'[p].pred.athlete_id = ev'[p].athlete_id
             /\ (Returned(ev'[p]) /\ ev'[p].result.action = "matched") =>
                   \E r \in pending_predictions' :
                      /\ r.id = ev'[p].result.prediction_id
                      /\ r.athlete_id = ev'[p].athlete_id]_vars

\* C32 witness: two invocations, one for each athlete, have refreshed the
\* credential, logged the run and matched the prediction, each its own
\* athlete's.
C32_Witness ==
    \E p, q \in Procs :
        /\ ev[p].athlete_id = 1 /\ ev[q].athlete_id = 2
        /\ Returned(ev[p]) /\ ev[p].result.action = "matched"
        /\ Returned(ev[q]) /\ ev[q].result.action = "matched"
        /\ obs[p].cred_writes = 1 /\ obs[q].cred_writes = 1
        /\ ev[p].result.prediction_id # ev[q].result.prediction_id
        /\ Cardinality(training_log) = 2 /\ Cardinality(race_results) = 2

\* invocation slot p has made each of its calls once at most
WorkDoneOnce(p) ==
    /\ obs[p].refresh_calls <= 1
    /\ obs[p].cred_writes <= 1
    /\ obs[p].fetch_calls <= 1
    /\ obs[p].log_calls <= 1 /\ obs[p].log_upserts <= 1
    /\ obs[p].pending_reads <= 1
    /\ obs[p].rr_writes <= 1
    /\ obs[p].match_calls <= 1

\* C33: every invocation ends with an outcome, after at most one upstream
\* refresh call, one activity-detail fetch, one training-log upsert, one
\* race-result write and one prediction transition: no invocation ends
\* otherwise than by returning its result, and none repeats a call.
\* (Stated as claimed; the code violates it.)
C33_RunToCompletion ==
    \A p \in Procs :
        /\ WorkDoneOnce(p)
        /\ ev[p].pc \in {"done", "raised"} =>
              /\ Returned(ev[p])
              /\ ev[p].result.action \in {"skipped", "logged", "matched"}

\* C33, the part that holds: no invocation repeats a call.
C33_NoRetry == \A p \in Procs : WorkDoneOnce(p)

\* C34: matching is deterministic.  The prediction an invocation selects is
\* a function of the store state and of the fetched activity: whatever
\* list get_pending_predictions may return in that state, the scan of it
\* ends as the invocation's scan did, with the same prediction or with none,
\* also when candidates have equal creation times.  (Stated as claimed; the
\* code violates it.)
C34_DeterministicMatching ==
    [][\A p \in Procs :
          (ev[p].pc = "get_pending" /\ StepOf(p)) =>
             \A pending \in get_pending_predictions(ev[p].athlete_id) :
                LET sc == Scan(pending, 1, ev[p].activity.distance,
                               ParseDate(ev[p].activity.start_date).date)
                IN  IF sc.kind = "match"
                    THEN ev'[p].pc = "rr_consent" /\ ev'[p].pred = sc.pred
                    ELSE ev'[p].pc # "rr_consent"]_vars

\* C35: detect_race_results returns the run activities with positive
\* distance within tolerance of the goal distance, each once, ordered with
\* the race-tagged activities first and then by date descending.  (Stated
\* as claimed; the code violates it.)
C35_DetectRaceResults ==
    ret.fn = "detect_race_results" =>
       LET acts == ret.activities
           g == ret.goal_distance_km
           v == ret.value
       IN  /\ {v[i].activity_id : i \in 1..Len(v)} =
                 {acts[i].id : i \in {j \in 1..Len(acts) :
                                        /\ acts[j].type = "Run"
                                        /\ acts[j].distance > 0
                                        /\ Abs(acts[j].distance - g) * 100 <= 15 * g}}
           /\ \A i, j \in 1..Len(v) : i < j =>
                 /\ v[i].activity_id # v[j].activity_id
                 /\ \/ v[i].is_race /\ ~v[j].is_race
                    \/ v[i].is_race = v[j].is_race /\ v[i].date >= v[j].date

\* C35, the part that holds: the activities returned are the runs with
\* positive distance within tolerance, each once, newest first.
C35_DetectNewestFirst ==
    ret.fn = "detect_race_results" =>
       LET acts == ret.activities
           g == ret.goal_distance_km
           v == ret.value
       IN  /\ {v[i].activity_id : i \in 1..Len(v)} =
                 {acts[i].id : i \in {j \in 1..Len(acts) :
                                        /\ acts[j].type = "Run"
                                        /\ acts[j].distance > 0
                                        /\ Abs(acts[j].distance - g) * 100 <= 15 * g}}
           /\ \A i, j \in 1..Len(v) : i < j =>
                 /\ v[i].activity_id # v[j].activity_id
                 /\ v[i].date >= v[j].date

\* no invocation of process_activity_event is in flight
Quiescent == \A p \in Procs : ev[p].pc \in {"idle", "done", "raised"}

\* C36: in every state where no event is in flight, each prediction with
\* status 'matched' has a webhook-sourced race result written for it and
\* for the activity it was matched to, also when consent is withdrawn
\* between the consent gate and the race-result write.  (Stated as claimed;
\* the code violates it.)
C36_MatchedHasRaceResult ==
    Quiescent =>
       \A r \in pending_predictions :
          r.status = "matched" =>
             \E rr \in race_results :
                /\ rr.source = "webhook"
                /\ rr.athlete_hash = r.athlete_hash
                /\ rr.origin.prediction_id = r.id
                /\ rr.origin.activity_id = r.matched_activity_id

\* the webhook-sourced race results written on behalf of prediction id
WebhookResultsFor(id) == {rr \in race_results : rr.source = "webhook" /\ rr.origin.prediction_id = id}

\* C37: after any interleaving of process_activity_event invocations of one
\* athlete, no prediction has more than one webhook-sourced race result
\* written on its behalf.  (Stated as claimed; the code violates it.)
C37_OneResultPerPrediction ==
    \A r \in pending_predictions : Cardinality(WebhookResultsFor(r.id)) <= 1

\* delete_athlete_data(athlete_id) has completed and no invocation of
\* process_activity_event is in flight any more
Erased(athlete_id) == ret = [fn |-> "delete_athlete_data", athlete_id |-> athlete_id] /\ Quiescent

\* C38: once delete_athlete_data(A) has completed and every invocation for
\* A that was in flight has finished, the store holds no credential, no
\* training-log row, no race result and no pending prediction of A.
\* (Stated as claimed; the code violates it.)
C38_ErasureIsFinal ==
    \A a \in Athletes :
       Erased(a) =>
          /\ ~ \E r \in athlete_tokens : r.athlete_id = a
          /\ ~ \E r \in training_log : r.athlete_hash = hash_athlete_id(a)
          /\ ~ \E r \in race_results : r.athlete_hash = hash_athlete_id(a)
          /\ ~ \E r \in pending_predictions : r.athlete_id = a /\ r.status = "pending"

\* the part of C38 that the code keeps: the deletion itself leaves no row
\* of the athlete in any table
C38_DeletionRemovesRows ==
    [][DeleteAthleteData(1) =>
          /\ RowsOf(athlete_tokens', 1) = {} /\ RowsOf(training_log', 1) = {}
          /\ RowsOf(race_results', 1) = {} /\ RowsOf(pending_predictions', 1) = {}
          /\ RowsOf(data_consent', 1) = {}]_vars

\* invocation p has come back from refresh_athlete_token with a pair it
\* obtained upstream and wrote with update_tokens
HasRefreshed(p) == ev[p].pc = "fetch" /\ obs[p].token_path = "refreshed"

\* C39: when two refresh_athlete_token calls for the same athlete have both
\* refreshed upstream and both have written their pair, the stored
\* credential is the pair of the later upstream response (the pair of the
\* greater grant), whatever the order of the two credential writes.
\* (Stated as claimed; the code violates it.)
C39_NewestCredentialKept ==
    \A p, q \in Procs :
       (p # q /\ HasRefreshed(p) /\ HasRefreshed(q) /\ ev[p].athlete_id = ev[q].athlete_id)
       => LET later == IF ev[p].access_token > ev[q].access_token
                       THEN ev[p].access_token ELSE ev[q].access_token
          IN  /\ get_tokens(ev[p].athlete_id).found
              /\ get_tokens(ev[p].athlete_id).access_token = later

\* the part of C39 that the code keeps: the stored credential is the pair
\* of one of the two responses
C39_OneOfTheTwoPairs ==
    \A p, q \in Procs :
       (p # q /\ HasRefreshed(p) /\ HasRefreshed(q) /\ ev[p].athlete_id = ev[q].athlete_id)
       => /\ get_tokens(ev[p].athlete_id).found
          /\ get_tokens(ev[p].athlete_id).access_token \in {ev[p].access_token, ev[q].access_token}

\* C40: in every reachable state a prediction has a matched activity id and
\* a matched timestamp if and only if its status is 'matched'; pending and
\* expired predictions have neither.
C40_ResolutionFields ==
    \A r \in pending_predictions :
       /\ r.status \in {"pending", "matched", "expired"}
       /\ (r.matched_activity_id # Null /\ r.matched_at # Null) <=> r.status = "matched"
       /\ r.status \in {"pending", "expired"} =>
             r.matched_activity_id = Null /\ r.matched_at = Null

\* a matched prediction next to one that the sweep has expired
C40_Witness ==
    /\ \E r \in pending_predictions :
          r.status = "matched" /\ r.matched_activity_id = 1 /\ r.matched_at = now
    /\ \E r \in pending_predictions :
          r.status = "expired" /\ r.matched_activity_id = Null /\ r.matched_at = Null

====
